---- MODULE Spec2Model ----
(***************************************************************************)
(* IRONSmith / aiecad_compiler: the HLIR ProgramBuilder with its ID        *)
(* registry (src/src/aiecad_compiler/hlir/builder.py), the Program model   *)
(* (src/src/plugins/core/aiecad_compiler/hlir/core.py) and BuilderResult   *)
(* (src/src/aiecad_compiler/hlir/builder_result.py).                       *)
(*                                                                         *)
(* Python objects are modelled as records.  Entities are never mutated     *)
(* after construction, so a held reference is the record itself; the field *)
(* oid is the object's identity (what id(obj) returns), drawn from a       *)
(* counter.  Python's dataclass == compares the fields and not the         *)
(* identity: PyEq.  A value that may be a str, None or an object is a      *)
(* record tagged by cls.  The Program's dictionaries, which the code       *)
(* iterates, are sequences of <<key, value>> pairs in insertion order; the *)
(* registry's tables, which it only indexes, are functions.                *)
(***************************************************************************)
EXTENDS Integers, Sequences, FiniteSets, TLC

VARIABLES
    program,          \* ProgramBuilder.program: the Program's name-keyed maps and runtime
    id_map,           \* ProgramBuilder._id_map: id -> (type, component)
    name_index,       \* ProgramBuilder._name_index: (type, name) -> id
    component_to_id,  \* ProgramBuilder._component_to_id: id(obj) -> id
    rt_builder,       \* RuntimeBuilder.runtime of the current RuntimeBuilder, or None
    rt_calls,         \* the add_* calls made on that RuntimeBuilder, in call order
    next_oid,         \* identity of the next object constructed
    next_uuid,        \* number of the next uuid4() drawn by _generate_id
    last,             \* the last call made: its method, the path it took, its error code
    pc,               \* main(): the stage the driver is about to run
    argv,             \* main(): sys.argv
    is_file,          \* main(): whether the path given names a file
    stages,           \* main(): the stages started so far and how each ended
    exit_status,      \* main(): the status the driver process exited with, or None
    gb,               \* GraphBuilder: graph, _counter, _scope_stack and, for the
                      \* properties, the statement nodes made for each If's branches
    fn_body,          \* the statements of the function body processed so far
    gen,              \* the CodeGenerator constructed, or None: its graph, code_lines,
                      \* indent_level, dataflow_generated and, for the properties,
                      \* what each generate() run returned and emitted
    xt                \* XMLTransformer: objectfifo_names, the sections of the complete
                      \* XML written so far, the lines its diagnostics wrote and, for
                      \* the properties, the elements transformed

\* the state of the driver process
driver_vars == <<pc, argv, is_file, stages, exit_status>>

\* the state of the builders
builder_vars == <<program, id_map, name_index, component_to_id, rt_builder, rt_calls,
                  next_oid, next_uuid, last>>

\* the state of the graph builder
graph_vars == <<gb, fn_body>>

\* the state of the code generator
codegen_vars == <<gen>>

\* the state of the expander
expander_vars == <<xt>>

vars == <<builder_vars, driver_vars, graph_vars, codegen_vars, expander_vars>>

-----------------------------------------------------------------------------
(* Bounds of the model. *)

\* objects constructed in one run of the registry specification
MaxObjects == 2
\* objects constructed in one run of the deeper registry specification
MaxDeepObjects == 3
\* objects constructed in one run of the dependency specification
MaxDepObjects == 2
\* objects constructed in one run of the deeper dependency specification
MaxDeepDepObjects == 3
\* objects constructed in one run of the build specification
MaxBuildObjects == 2
\* workers a RuntimeBuilder is given to start
MaxStart == 1

Names == {"a", "b"}
\* the dependency specification gives every entity the same name
DepNames == {"a"}

-----------------------------------------------------------------------------
(* Python values. *)

NoneV == [cls |-> "None"]
Str(s) == [cls |-> "str", s |-> s]
IntV(n) == [cls |-> "int", v |-> n]

\* str(uuid4()): the n-th identifier generated
Uuid(n) == [uuid |-> n]
\* an id string chosen by the caller
CallerId(s) == [str |-> s]

\* truth value of an Optional[str] provided_id: None and "" are false
Truthy(provided_id) == provided_id # NoneV /\ provided_id # CallerId("")

\* A registry table: d[k] = v, del d[k], d.get(k, default)
EmptyTable == <<>>
Put(d, k, v) == [x \in (DOMAIN d) \cup {k} |-> IF x = k THEN v ELSE d[x]]
Del(d, k) == [x \in (DOMAIN d) \ {k} |-> d[x]]
Get(d, k, default) == IF k \in DOMAIN d THEN d[k] ELSE default

\* A dictionary of the Program, in insertion order: k in d, d[k], d[k] = v (an
\* existing key keeps its place), del d[k], d.get(k, default), d.values()
EmptyDict == <<>>
Keys(d) == {d[i][1] : i \in DOMAIN d}
Has(d, k) == k \in Keys(d)
At(d, k) == d[CHOOSE i \in DOMAIN d : d[i][1] = k][2]
DictSet(d, k, v) ==
    IF Has(d, k)
    THEN [i \in DOMAIN d |-> IF d[i][1] = k THEN <<k, v>> ELSE d[i]]
    ELSE Append(d, <<k, v>>)
DictDel(d, k) == SelectSeq(d, LAMBDA p : p[1] # k)
DictGet(d, k, default) == IF Has(d, k) THEN At(d, k) ELSE default
Values(d) == [i \in DOMAIN d |-> d[i][2]]

Tile(o, name, x) == [cls |-> "Tile", oid |-> o, name |-> name, x |-> x]

Symbol(o, name, value, type_hint, is_constant) ==
    [cls |-> "Symbol", oid |-> o, name |-> name, value |-> value,
     type_hint |-> type_hint, is_constant |-> is_constant]

TensorType(shape) == [cls |-> "TensorType", shape |-> shape]

ObjectFifo(o, name, obj_type, depth, producer, consumers) ==
    [cls |-> "ObjectFifo", oid |-> o, name |-> name, obj_type |-> obj_type,
     depth |-> depth, producer |-> producer, consumers |-> consumers]

ExternalKernel(o, name, kernel_name) ==
    [cls |-> "ExternalKernel", oid |-> o, name |-> name, kernel_name |-> kernel_name]

CoreFunction(o, name, parameters, kernel_call) ==
    [cls |-> "CoreFunction", oid |-> o, name |-> name, parameters |-> parameters,
     kernel_call |-> kernel_call]

FifoBinding(fifo, mode, index) ==
    [cls |-> "FifoBinding", fifo |-> fifo, mode |-> mode, index |-> index]

Worker(o, name, core_fn, fn_args, placement) ==
    [cls |-> "Worker", oid |-> o, name |-> name, core_fn |-> core_fn,
     fn_args |-> fn_args, placement |-> placement]

RuntimeSequence(o, name, workers) ==
    [cls |-> "RuntimeSequence", oid |-> o, name |-> name, input_types |-> <<>>,
     output_types |-> <<>>, param_names |-> <<>>, workers |-> workers, operations |-> <<>>]

\* The fields a dataclass __eq__ compares: everything but the identity.
RECURSIVE Fields(_)
Fields(v) ==
    CASE v.cls = "Tile" -> [cls |-> v.cls, name |-> v.name, x |-> v.x]
      [] v.cls = "Symbol" ->
            [cls |-> v.cls, name |-> v.name, value |-> Fields(v.value),
             type_hint |-> v.type_hint, is_constant |-> v.is_constant]
      [] v.cls = "ObjectFifo" ->
            [cls |-> v.cls, name |-> v.name, obj_type |-> Fields(v.obj_type),
             depth |-> v.depth, producer |-> Fields(v.producer),
             consumers |-> [i \in DOMAIN v.consumers |-> Fields(v.consumers[i])]]
      [] v.cls = "ExternalKernel" ->
            [cls |-> v.cls, name |-> v.name, kernel_name |-> v.kernel_name]
      [] v.cls = "CoreFunction" ->
            [cls |-> v.cls, name |-> v.name, parameters |-> v.parameters,
             kernel_call |-> v.kernel_call]
      [] v.cls = "FifoBinding" ->
            [cls |-> v.cls, fifo |-> Fields(v.fifo), mode |-> v.mode, index |-> v.index]
      [] v.cls = "Worker" ->
            [cls |-> v.cls, name |-> v.name, core_fn |-> Fields(v.core_fn),
             fn_args |-> [i \in DOMAIN v.fn_args |-> Fields(v.fn_args[i])],
             placement |-> Fields(v.placement)]
      [] v.cls = "SplitOperation" ->
            [v EXCEPT !.source = Fields(@), !.placement = Fields(@)]
      [] v.cls = "JoinOperation" ->
            [v EXCEPT !.dest = Fields(@), !.placement = Fields(@)]
      [] OTHER -> v

\* a == b in Python
PyEq(a, b) == Fields(a) = Fields(b)

IsStr(v) == v.cls = "str"

-----------------------------------------------------------------------------
(* BuilderResult. *)

ResultOk(component_id, component) ==
    [success |-> TRUE, id |-> component_id, component |-> component,
     error_code |-> "success", error_message |-> NoneV, dependencies |-> NoneV]

ResultError(code, message, dependencies) ==
    [success |-> FALSE, id |-> NoneV, component |-> NoneV,
     error_code |-> code, error_message |-> message, dependencies |-> dependencies]

\* the message is kept as the values it is formatted from
ResultDuplicate(name, component_type, existing_id) ==
    ResultError("duplicate_name",
                [name |-> name, type |-> component_type, existing_id |-> existing_id],
                NoneV)

ResultNotFound(component_id) ==
    ResultError("not_found", [id |-> component_id], NoneV)

ResultHasDependencies(component_id, component_type, deps) ==
    ResultError("dependency_exists",
                [id |-> component_id, type |-> component_type, used_by |-> deps],
                deps)

-----------------------------------------------------------------------------
(* The ProgramBuilder's state as one value b, so that a call is a function  *)
(* from the builder before it to the builder after it and its result.       *)

Builder(prog, ids, index, tracked, oid, uuid) ==
    [program |-> prog, id_map |-> ids, name_index |-> index,
     component_to_id |-> tracked, next_oid |-> oid, next_uuid |-> uuid]

\* ProgramBuilder.__init__
NewBuilder == Builder([symbols |-> EmptyDict, tiles |-> EmptyDict, fifos |-> EmptyDict,
                       external_kernels |-> EmptyDict, core_functions |-> EmptyDict,
                       workers |-> EmptyDict, runtime |-> NoneV],
                      EmptyTable, EmptyTable, EmptyTable, 1, 1)

\* the builder in the current state
Now == Builder(program, id_map, name_index, component_to_id, next_oid, next_uuid)

\* what a call returns and leaves behind; path names the branch the call took
Outcome(b, result, path) == [builder |-> b, result |-> result, path |-> path]

-----------------------------------------------------------------------------
(* The ID registry. *)

\* _generate_id: str(uuid4()), never an id drawn before
GenerateId(b) == Uuid(b.next_uuid)

\* a registration that draws a fresh id for a provided_id it does not know
RegisterComponentFreshId(b, comp_type, name, component, provided_id) ==
    LET name_key == <<comp_type, name>>
        entry == [type |-> comp_type, component |-> component]
        Registered(comp_id, index, tracked, uuid) ==
            Builder(b.program, Put(b.id_map, comp_id, entry),
                    Put(index, name_key, comp_id),
                    Put(tracked, component.oid, comp_id), b.next_oid, uuid)
    IN  IF Truthy(provided_id) /\ provided_id \in DOMAIN b.id_map
        THEN LET old_type == b.id_map[provided_id].type
                 old_component == b.id_map[provided_id].component
                 old_name == old_component.name
             IN  [builder |-> Registered(provided_id,
                                 IF old_type = comp_type /\ old_name # name
                                 THEN Del(b.name_index, <<comp_type, old_name>>)
                                 ELSE b.name_index,
                                 Del(b.component_to_id, old_component.oid),
                                 b.next_uuid),
                  id |-> provided_id, path |-> "update"]
        ELSE IF ~Truthy(provided_id) /\ name_key \in DOMAIN b.name_index
             THEN [builder |-> b, id |-> b.name_index[name_key], path |-> "existing"]
             ELSE [builder |-> Registered(GenerateId(b), b.name_index,
                                          b.component_to_id, b.next_uuid + 1),
                   id |-> GenerateId(b), path |-> "generate"]

\* _register_component: the builder after it, the id it returns and the branch taken.
\* The component has been constructed by the caller, as object b.next_oid.
RegisterComponent(b, comp_type, name, component, provided_id) ==
    LET name_key == <<comp_type, name>>
        entry == [type |-> comp_type, component |-> component]
        Registered(comp_id, index, tracked, uuid) ==
            Builder(b.program, Put(b.id_map, comp_id, entry),
                    Put(index, name_key, comp_id),
                    Put(tracked, component.oid, comp_id), b.next_oid, uuid)
    IN  IF Truthy(provided_id)
        THEN IF provided_id \in DOMAIN b.id_map
             THEN LET old_type == b.id_map[provided_id].type
                      old_component == b.id_map[provided_id].component
                      old_name == old_component.name
                  IN  [builder |-> Registered(provided_id,
                                      IF old_type = comp_type /\ old_name # name
                                      THEN Del(b.name_index, <<comp_type, old_name>>)
                                      ELSE b.name_index,
                                      Del(b.component_to_id, old_component.oid),
                                      b.next_uuid),
                       id |-> provided_id, path |-> "update"]
             ELSE [builder |-> Registered(provided_id, b.name_index,
                                          b.component_to_id, b.next_uuid),
                   id |-> provided_id, path |-> "insert"]
        ELSE IF name_key \in DOMAIN b.name_index
             THEN [builder |-> b, id |-> b.name_index[name_key], path |-> "existing"]
             ELSE [builder |-> Registered(GenerateId(b), b.name_index,
                                          b.component_to_id, b.next_uuid + 1),
                   id |-> GenerateId(b), path |-> "generate"]

\* One entry of the list _check_dependencies returns: "FIFO 'f0'", "Worker 'w'",
\* "Worker 'w' via CoreFunction 'f'", "Runtime 'r'", as the values it is formatted from.
Dep(kind, name, via) == [kind |-> kind, name |-> name, via |-> via]

\* [F(x) for x in s]
MapSeq(s, F(_)) == [i \in DOMAIN s |-> F(s[i])]

RECURSIVE Concat(_)
Concat(ss) == IF ss = <<>> THEN <<>> ELSE Head(ss) \o Concat(Tail(ss))

\* any(P(x) for x in s)
AnySeq(s, P(_)) == \E i \in DOMAIN s : P(s[i])

\* _check_dependencies
CheckDependencies(b, comp_type, component) ==
    LET workers == Values(b.program.workers)
        runtime == b.program.runtime
        WorkerDep(worker) == Dep("Worker", worker.name, NoneV)
    IN  CASE comp_type = "tensor_type" ->
                MapSeq(SelectSeq(Values(b.program.fifos),
                                 LAMBDA fifo : IsStr(fifo.obj_type)
                                               /\ fifo.obj_type.s = component.name),
                       LAMBDA fifo : Dep("FIFO", fifo.name, NoneV))
          [] comp_type = "tile" ->
                MapSeq(SelectSeq(workers, LAMBDA worker : PyEq(worker.placement, component)),
                       WorkerDep)
          [] comp_type = "fifo" ->
                MapSeq(SelectSeq(workers,
                                 LAMBDA worker :
                                    AnySeq(worker.fn_args,
                                           LAMBDA arg : arg.cls = "FifoBinding"
                                                        /\ PyEq(arg.fifo, component))),
                       WorkerDep)
          [] comp_type = "external_kernel" ->
                LET Uses(func, worker) ==
                        /\ PyEq(worker.core_fn, func)
                        /\ Len(worker.fn_args) > 0
                        /\ \/ worker.fn_args[1] = Str(component.name)
                           \/ PyEq(worker.fn_args[1], component)
                    \* the inner loop stops at the first worker that matches
                    ForFunc(func) ==
                        IF func.kernel_call # NoneV /\ Len(func.parameters) > 0
                        THEN LET using == SelectSeq(workers, LAMBDA w : Uses(func, w))
                             IN  IF using = <<>> THEN <<>>
                                 ELSE <<Dep("Worker", using[1].name, Str(func.name))>>
                        ELSE <<>>
                IN  Concat(MapSeq(Values(b.program.core_functions), ForFunc))
          [] comp_type = "core_function" ->
                MapSeq(SelectSeq(workers,
                                 LAMBDA worker :
                                    \/ PyEq(worker.core_fn, component)
                                    \/ worker.core_fn = Str(component.name)),
                       WorkerDep)
          [] comp_type = "worker" ->
                IF runtime # NoneV
                   /\ AnySeq(runtime.workers,
                             LAMBDA worker_ref : \/ PyEq(worker_ref, component)
                                                 \/ worker_ref = Str(component.name))
                THEN <<Dep("Runtime", runtime.name, NoneV)>>
                ELSE <<>>
          [] OTHER -> <<>>

\* _lookup_by_id
LookupById(b, comp_id) ==
    IF comp_id \notin DOMAIN b.id_map
    THEN ResultNotFound(comp_id)
    ELSE ResultOk(comp_id, b.id_map[comp_id].component)

\* the KeyError that indexing a dict with a missing key raises
KeyError == [raised |-> "KeyError"]

\* _lookup_by_name
LookupByName(b, comp_type, name) ==
    LET name_key == <<comp_type, name>>
    IN  IF name_key \notin DOMAIN b.name_index
        THEN ResultError("not_found", [type |-> comp_type, name |-> name], NoneV)
        ELSE IF b.name_index[name_key] \notin DOMAIN b.id_map
             THEN KeyError
             ELSE ResultOk(b.name_index[name_key],
                           b.id_map[b.name_index[name_key]].component)

-----------------------------------------------------------------------------
(* ProgramBuilder: the add_* methods, remove and update_fifo. *)

\* The body every add_* method shares, for the Program dictionary `field` the
\* method stores into: drop the updated component's old name from that
\* dictionary, or refuse a name that is already in it; store the new entity
\* (constructed as object b.next_oid); register it; return ok(comp_id, returned).
AddComponent(b, field, comp_type, name, component, returned, provided_id) ==
    LET updating == Truthy(provided_id) /\ provided_id \in DOMAIN b.id_map
        dict == b.program[field]
    IN  IF ~updating /\ Has(dict, name)
        THEN Outcome(b, ResultDuplicate(name, comp_type,
                                        Get(b.name_index, <<comp_type, name>>, CallerId(""))),
                     "duplicate")
        ELSE LET old_name == b.id_map[provided_id].component.name
                 cleared == IF updating THEN DictDel(dict, old_name) ELSE dict
                 stored == [b EXCEPT !.program[field] = DictSet(cleared, name, component),
                                     !.next_oid = @ + 1]
                 reg == RegisterComponent(stored, comp_type, name, component, provided_id)
             IN  Outcome(reg.builder, ResultOk(reg.id, returned), reg.path)

\* add_symbol
AddSymbol(b, name, value, type_hint, is_constant, provided_id) ==
    LET comp_type == IF is_constant THEN "constant" ELSE "symbol"
        symbol == Symbol(b.next_oid, name, value, type_hint, is_constant)
    IN  AddComponent(b, "symbols", comp_type, name, symbol, symbol, provided_id)

\* add_constant
AddConstant(b, name, value, type_hint, provided_id) ==
    AddSymbol(b, name, value, type_hint, TRUE, provided_id)

\* add_tensor_type: the result carries the TensorType, the registry the Symbol
AddTensorType(b, name, shape, provided_id) ==
    LET tensor_ty == TensorType(shape)
        symbol == Symbol(b.next_oid, name, tensor_ty, Str("TensorType"), FALSE)
    IN  AddComponent(b, "symbols", "tensor_type", name, symbol, tensor_ty, provided_id)

\* add_tile
AddTile(b, name, x, provided_id) ==
    LET tile == Tile(b.next_oid, name, x)
    IN  AddComponent(b, "tiles", "tile", name, tile, tile, provided_id)

\* add_fifo: a producer or consumer given by name is looked up in the tiles,
\* and a name that is not there becomes None (a consumer is then dropped)
AddFifo(b, name, obj_type, depth, producer, consumers, provided_id) ==
    LET Resolve(t) == IF IsStr(t) THEN DictGet(b.program.tiles, t.s, NoneV) ELSE t
        resolved == SelectSeq(MapSeq(consumers, Resolve), LAMBDA c : c # NoneV)
        fifo == ObjectFifo(b.next_oid, name, obj_type, depth, Resolve(producer), resolved)
    IN  AddComponent(b, "fifos", "fifo", name, fifo, fifo, provided_id)

\* add_external_kernel
AddExternalKernel(b, name, kernel_name, provided_id) ==
    LET kernel == ExternalKernel(b.next_oid, name, kernel_name)
    IN  AddComponent(b, "external_kernels", "external_kernel", name, kernel, kernel,
                     provided_id)

\* add_core_function
AddCoreFunction(b, name, parameters, kernel_call, provided_id) ==
    LET func == CoreFunction(b.next_oid, name, parameters, kernel_call)
    IN  AddComponent(b, "core_functions", "core_function", name, func, func, provided_id)

\* an element (fifo, mode, index) of the fn_args given to add_worker
BindingTuple(fifo, mode, index) ==
    [cls |-> "tuple", fifo |-> fifo, mode |-> mode, index |-> index]

\* add_worker: names are looked up and stay as they are when the lookup fails
AddWorker(b, name, core_fn, fn_args, placement, provided_id) ==
    LET ResolveIn(dict, ref) == IF IsStr(ref) THEN DictGet(dict, ref.s, ref) ELSE ref
        Process(arg) ==
            IF arg.cls = "tuple"
            THEN FifoBinding(ResolveIn(b.program.fifos, arg.fifo), arg.mode, arg.index)
            ELSE arg
        worker == Worker(b.next_oid, name, ResolveIn(b.program.core_functions, core_fn),
                         MapSeq(fn_args, Process), ResolveIn(b.program.tiles, placement))
    IN  AddComponent(b, "workers", "worker", name, worker, worker, provided_id)

\* the Program dictionary that _remove_component deletes a component of this type from
FieldOf(comp_type) ==
    CASE comp_type \in {"constant", "tensor_type", "symbol",
                        "fifo_split", "fifo_join", "fifo_forward"} -> "symbols"
      [] comp_type = "tile" -> "tiles"
      [] comp_type = "fifo" -> "fifos"
      [] comp_type = "external_kernel" -> "external_kernels"
      [] comp_type = "core_function" -> "core_functions"
      [] comp_type = "worker" -> "workers"

\* a removal that does not consult _check_dependencies
RemoveComponentUnchecked(b, comp_id) ==
    IF comp_id \notin DOMAIN b.id_map
    THEN Outcome(b, ResultNotFound(comp_id), "not_found")
    ELSE LET comp_type == b.id_map[comp_id].type
             component == b.id_map[comp_id].component
         IN  Outcome([b EXCEPT
                         !.program[FieldOf(comp_type)] = DictDel(@, component.name),
                         !.id_map = Del(@, comp_id),
                         !.name_index = Del(@, <<comp_type, component.name>>),
                         !.component_to_id = Del(@, component.oid)],
                     ResultOk(comp_id, component), "removed")

\* a removal that unregisters by name: every id whose entity carries the
\* removed entity's name goes with it
RemoveComponentByName(b, comp_id) ==
    IF comp_id \notin DOMAIN b.id_map
    THEN Outcome(b, ResultNotFound(comp_id), "not_found")
    ELSE LET comp_type == b.id_map[comp_id].type
             component == b.id_map[comp_id].component
             deps == CheckDependencies(b, comp_type, component)
             same == {i \in DOMAIN b.id_map : b.id_map[i].component.name = component.name}
         IN  IF deps # <<>>
             THEN Outcome(b, ResultHasDependencies(comp_id, comp_type, deps), "blocked")
             ELSE Outcome([b EXCEPT
                              !.program[FieldOf(comp_type)] = DictDel(@, component.name),
                              !.id_map = [i \in (DOMAIN @) \ same |-> @[i]],
                              !.name_index = Del(@, <<comp_type, component.name>>),
                              !.component_to_id = Del(@, component.oid)],
                          ResultOk(comp_id, component), "removed")

\* _remove_component
RemoveComponent(b, comp_id) ==
    IF comp_id \notin DOMAIN b.id_map
    THEN Outcome(b, ResultNotFound(comp_id), "not_found")
    ELSE LET comp_type == b.id_map[comp_id].type
             component == b.id_map[comp_id].component
             deps == CheckDependencies(b, comp_type, component)
         IN  IF deps # <<>>
             THEN Outcome(b, ResultHasDependencies(comp_id, comp_type, deps), "blocked")
             ELSE Outcome([b EXCEPT
                              !.program[FieldOf(comp_type)] = DictDel(@, component.name),
                              !.id_map = Del(@, comp_id),
                              !.name_index = Del(@, <<comp_type, component.name>>),
                              !.component_to_id = Del(@, component.oid)],
                          ResultOk(comp_id, component), "removed")

\* _update_fifo
UpdateFifo(b, old_id, new_id) ==
    IF old_id \notin DOMAIN b.id_map
    THEN Outcome(b, ResultNotFound(old_id), "not_found")
    ELSE IF new_id \notin DOMAIN b.id_map
    THEN Outcome(b, ResultNotFound(new_id), "not_found")
    ELSE LET old_fifo == b.id_map[old_id].component
             new_fifo == b.id_map[new_id].component
         IN  IF b.id_map[old_id].type # "fifo" \/ b.id_map[new_id].type # "fifo"
             THEN Outcome(b, ResultError("invalid_parameter", NoneV, NoneV), "invalid")
             ELSE Outcome([b EXCEPT
                              !.program.fifos = DictSet(DictDel(@, old_fifo.name),
                                                        new_fifo.name, new_fifo),
                              !.id_map = Del(@, old_id),
                              !.name_index = Del(@, <<"fifo", old_fifo.name>>)],
                          ResultOk(new_id, new_fifo), "swapped")

-----------------------------------------------------------------------------
(* RuntimeBuilder.  The RuntimeSequence is the one object the builders      *)
(* mutate after construction; once build() has handed it to the Program,    *)
(* program.runtime is that same object and sees every later append.         *)

\* the Program after the RuntimeSequence `runtime` was mutated
Aliased(prog, runtime) ==
    IF prog.runtime # NoneV /\ prog.runtime.oid = runtime.oid
    THEN [prog EXCEPT !.runtime = runtime]
    ELSE prog

\* RuntimeBuilder.add_worker: the RuntimeSequence after it
RuntimeAddWorker(b, runtime, worker) ==
    LET resolved == IF IsStr(worker) THEN DictGet(b.program.workers, worker.s, worker)
                    ELSE worker
    IN  [runtime EXCEPT !.workers = Append(@, resolved)]

-----------------------------------------------------------------------------
(* Actions: one call on the builder each.  A specification gives each call  *)
(* the values its arguments are drawn from and the number of objects it may *)
(* construct in all.                                                        *)

\* A ProgramBuilder call with outcome `out`, as long as at most `max` objects exist.
Apply(op, out, max) ==
    /\ out.builder.next_oid <= max + 1
    /\ program' = out.builder.program
    /\ id_map' = out.builder.id_map
    /\ name_index' = out.builder.name_index
    /\ component_to_id' = out.builder.component_to_id
    /\ next_oid' = out.builder.next_oid
    /\ next_uuid' = out.builder.next_uuid
    /\ last' = [op |-> op, path |-> out.path, code |-> out.result.error_code]
    /\ UNCHANGED <<rt_builder, rt_calls>>
    /\ UNCHANGED <<driver_vars, graph_vars, codegen_vars, expander_vars>>

\* ids a caller can hold: a string of its own and the ids generated so far
KnownIdsOf(b) == {CallerId("p1")} \cup {Uuid(n) : n \in 1..(b.next_uuid - 1)}
KnownIds == KnownIdsOf(Now)
\* the provided_id argument: absent, the empty string, or an id
ProvidedIdsOf(b) == {NoneV, CallerId("")} \cup KnownIdsOf(b)
ProvidedIds == ProvidedIdsOf(Now)

DoAddTile(names, xs, max) ==
    \E name \in names, x \in xs, provided_id \in ProvidedIds :
        Apply("add_tile", AddTile(Now, name, x, provided_id), max)

DoAddConstant(names, max) ==
    \E name \in names, provided_id \in ProvidedIds :
        Apply("add_constant", AddConstant(Now, name, IntV(1), Str("int"), provided_id), max)

DoAddTensorType(names, max) ==
    \E name \in names, provided_id \in ProvidedIds :
        Apply("add_tensor_type", AddTensorType(Now, name, <<1024>>, provided_id), max)

DoAddFifo(names, types, depths, max) ==
    \E name \in names, obj_type \in types, depth \in depths, provided_id \in ProvidedIds :
        Apply("add_fifo", AddFifo(Now, name, obj_type, depth, NoneV, <<>>, provided_id), max)

DoRemove(max) ==
    \E comp_id \in KnownIds :
        Apply("remove", RemoveComponent(Now, comp_id), max)

DoUpdateFifo(max) ==
    \E old_id \in KnownIds, new_id \in KnownIds :
        Apply("update_fifo", UpdateFifo(Now, old_id, new_id), max)

DoAddExternalKernel(names, max) ==
    \E name \in names, provided_id \in ProvidedIds :
        Apply("add_external_kernel", AddExternalKernel(Now, name, "kernel", provided_id), max)

DoAddCoreFunction(names, kernel_calls, max) ==
    \E name \in names, kernel_call \in kernel_calls, provided_id \in ProvidedIds :
        Apply("add_core_function",
              AddCoreFunction(Now, name, <<"kernel", "fifo">>, kernel_call, provided_id), max)

DoAddWorker(names, core_fns, arg_lists, placements, max) ==
    \E name \in names, core_fn \in core_fns, fn_args \in arg_lists,
       placement \in placements, provided_id \in ProvidedIds :
        Apply("add_worker", AddWorker(Now, name, core_fn, fn_args, placement, provided_id),
              max)

\* ProgramBuilder.create_runtime: a RuntimeBuilder with a new, empty RuntimeSequence
DoCreateRuntime(max) ==
    /\ next_oid <= max
    /\ rt_builder' = RuntimeSequence(next_oid, "runtime", <<>>)
    /\ rt_calls' = <<>>
    /\ next_oid' = next_oid + 1
    /\ last' = [op |-> "create_runtime", path |-> "", code |-> "success"]
    /\ UNCHANGED <<program, id_map, name_index, component_to_id, next_uuid>>
    /\ UNCHANGED <<driver_vars, graph_vars, codegen_vars, expander_vars>>

\* RuntimeBuilder.add_worker, while the start list is shorter than max_start
DoRuntimeAddWorker(workers, max_start) ==
    /\ rt_builder # NoneV
    /\ Len(rt_builder.workers) < max_start
    /\ \E worker \in workers :
        /\ rt_builder' = RuntimeAddWorker(Now, rt_builder, worker)
        /\ rt_calls' = Append(rt_calls, [method |-> "add_worker", args |-> <<worker>>])
        /\ program' = Aliased(program, rt_builder')
    /\ last' = [op |-> "rt.add_worker", path |-> "", code |-> "success"]
    /\ UNCHANGED <<id_map, name_index, component_to_id, next_oid, next_uuid>>
    /\ UNCHANGED <<driver_vars, graph_vars, codegen_vars, expander_vars>>

\* RuntimeBuilder.build: ProgramBuilder.set_runtime(self.runtime)
DoRuntimeBuild ==
    /\ rt_builder # NoneV
    /\ program' = [program EXCEPT !.runtime = rt_builder]
    /\ last' = [op |-> "rt.build", path |-> "", code |-> "success"]
    /\ UNCHANGED <<id_map, name_index, component_to_id, rt_builder, rt_calls, next_oid,
                   next_uuid>>
    /\ UNCHANGED <<driver_vars, graph_vars, codegen_vars, expander_vars>>

-----------------------------------------------------------------------------
(* GraphBuilder: nodes, typed edges and the scopes of declared names.  The  *)
(* graph is a DiGraph: one edge per (source, target), its type an           *)
(* attribute that a later add_edge overwrites.                              *)

\* GraphBuilder.__init__; branches and chains are not fields of the builder:
\* branches keeps, for each If node, the nodes its handler made for the
\* statements of the then and of the else block, chains keeps the
\* <method_chain> element each MethodChain node was made for
NewGraphBuilder ==
    [nodes |-> EmptyDict, edges |-> EmptyDict, counter |-> 0, scope_stack |-> <<EmptyDict>>,
     branches |-> EmptyDict, chains |-> EmptyDict]

\* None where a node id is expected
NoNode == <<"None", 0>>

\* _new_id: the id the next node of this kind gets
NextId(g, kind) == <<kind, g.counter + 1>>

\* _add_node
AddNode(g, label, kind, attrs) ==
    [g EXCEPT !.counter = @ + 1,
              !.nodes = DictSet(@, NextId(g, kind),
                                [label |-> label, kind |-> kind, attrs |-> attrs])]

\* _link
Link(g, src, dst, edge_type) ==
    IF src # NoNode /\ dst # NoNode /\ edge_type # ""
    THEN [g EXCEPT !.edges = DictSet(@, <<src, dst>>, edge_type)]
    ELSE g

\* _declare_symbol: a name of an outer scope is shadowed, a name of the
\* current scope alone is kept, a new name is registered (every element of
\* the model names its symbol, so the name is never None)
DeclareSymbol(g, name, nid) ==
    LET depth == Len(g.scope_stack)
        in_outer == \E k \in 1..(depth - 1) : Has(g.scope_stack[k], name)
    IN  IF ~in_outer /\ Has(g.scope_stack[depth], name) THEN g
        ELSE [g EXCEPT !.scope_stack[depth] = DictSet(@, name, nid)]

\* _lookup: the innermost declaration of the name; NoNode stands for NameError
Lookup(g, name) ==
    IF name # "" /\ \E k \in DOMAIN g.scope_stack : Has(g.scope_stack[k], name)
    THEN At(g.scope_stack[CHOOSE k \in DOMAIN g.scope_stack :
                              /\ Has(g.scope_stack[k], name)
                              /\ \A j \in (k + 1)..Len(g.scope_stack) :
                                     ~Has(g.scope_stack[j], name)], name)
    ELSE NoNode

\* build() and _process_function up to the body: the Module node, the
\* Function node it contains and the function's own scope
FunctionEntered ==
    LET module == DeclareSymbol(AddNode(NewGraphBuilder, "m", "Module", <<>>),
                                "m", <<"Module", 1>>)
        function == Link(AddNode(module, "f", "Function", <<>>),
                         <<"Module", 1>>, <<"Function", 2>>, "contains")
    IN  DeclareSymbol([function EXCEPT !.scope_stack = Append(@, EmptyDict)],
                      "f", <<"Function", 2>>)

\* XMLTransformer.__init__ for an authoring XML whose iron.jit function has
\* the parameter inputA; sink holds the lines written through Diagnostics,
\* log the elements transformed so far
NewXMLTransformer ==
    [objectfifo_names |-> EmptyDict, tensor_refs |-> << <<"A", "inputA">> >>,
     symbols_section |-> <<>>, dataflow_section |-> <<>>, sink |-> <<>>, log |-> <<>>]

Init ==
    /\ program = NewBuilder.program
    /\ id_map = NewBuilder.id_map
    /\ name_index = NewBuilder.name_index
    /\ component_to_id = NewBuilder.component_to_id
    /\ next_oid = NewBuilder.next_oid
    /\ next_uuid = NewBuilder.next_uuid
    /\ rt_builder = NoneV
    /\ rt_calls = <<>>
    /\ pc = "main"
    /\ argv = <<>>
    /\ is_file = FALSE
    /\ stages = <<>>
    /\ exit_status = NoneV
    /\ gb = FunctionEntered
    /\ fn_body = <<>>
    /\ gen = NoneV
    /\ xt = NewXMLTransformer
    /\ last = [op |-> "__init__", path |-> "", code |-> "success"]

\* The registry: symbols, tiles and FIFOs added, updated, removed and swapped.
Next ==
    \/ DoAddTile(Names, {0}, MaxObjects)
    \/ DoAddConstant(Names, MaxObjects)
    \/ DoAddTensorType(Names, MaxObjects)
    \/ DoAddFifo(Names, {Str("a")}, {2}, MaxObjects)
    \/ DoRemove(MaxObjects)
    \/ DoUpdateFifo(MaxObjects)

Spec == Init /\ [][Next]_vars

\* The same calls, one object more.
DeepNext ==
    \/ DoAddTile(Names, {0}, MaxDeepObjects)
    \/ DoAddConstant(Names, MaxDeepObjects)
    \/ DoAddTensorType(Names, MaxDeepObjects)
    \/ DoAddFifo(Names, {Str("a")}, {2}, MaxDeepObjects)
    \/ DoRemove(MaxDeepObjects)
    \/ DoUpdateFifo(MaxDeepObjects)

DeepSpec == Init /\ [][DeepNext]_vars

\* fn_args of a worker: no FIFO, or one FIFO given by name
DepArgLists == {<<>>, <<Str("k"), BindingTuple(Str("a"), "cons", NoneV)>>}

\* Dependencies: tiles, FIFOs, kernels, core functions and workers that refer
\* to one another, the runtime that starts the workers, and removal.
DepNext ==
    \/ DoAddTile(DepNames, {0, 1}, MaxDepObjects)
    \/ DoAddTensorType(DepNames, MaxDepObjects)
    \/ DoAddFifo(DepNames, {Str("a")}, {1, 2}, MaxDepObjects)
    \/ DoAddCoreFunction(DepNames, {NoneV}, MaxDepObjects)
    \/ DoAddWorker(DepNames, {Str("a")}, DepArgLists, {Str("a")}, MaxDepObjects)
    \/ DoCreateRuntime(MaxDepObjects)
    \/ DoRuntimeAddWorker({Str("a")}, MaxStart)
    \/ DoRuntimeBuild
    \/ DoRemove(MaxDepObjects)

DepSpec == Init /\ [][DepNext]_vars

\* The same calls, one object more.
DeepDepNext ==
    \/ DoAddTile(DepNames, {0, 1}, MaxDeepDepObjects)
    \/ DoAddTensorType(DepNames, MaxDeepDepObjects)
    \/ DoAddFifo(DepNames, {Str("a")}, {1, 2}, MaxDeepDepObjects)
    \/ DoAddCoreFunction(DepNames, {NoneV}, MaxDeepDepObjects)
    \/ DoAddWorker(DepNames, {Str("a")}, DepArgLists, {Str("a")}, MaxDeepDepObjects)
    \/ DoCreateRuntime(MaxDeepDepObjects)
    \/ DoRuntimeAddWorker({Str("a")}, MaxStart)
    \/ DoRuntimeBuild
    \/ DoRemove(MaxDeepDepObjects)

DeepDepSpec == Init /\ [][DeepDepNext]_vars

-----------------------------------------------------------------------------
(* Calls a client can make next, as values: the call's arguments, the ids   *)
(* it names and its outcome on builder b.                                   *)

\* the namespaces the registry specifications add to
AddTypes == {"tile", "constant", "tensor_type", "fifo"}

\* an add_* call of the registry specifications on builder b
AddCall(b, comp_type, name, provided_id) ==
    [op |-> "add_" \o comp_type, comp_type |-> comp_type, name |-> name,
     provided_id |-> provided_id,
     out |-> CASE comp_type = "tile" -> AddTile(b, name, 0, provided_id)
               [] comp_type = "constant" ->
                      AddConstant(b, name, IntV(1), Str("int"), provided_id)
               [] comp_type = "tensor_type" ->
                      AddTensorType(b, name, <<1024>>, provided_id)
               [] comp_type = "fifo" ->
                      AddFifo(b, name, Str("a"), 2, NoneV, <<>>, provided_id)]

\* every add_* call of the registry specifications
RegistryAdds(b) ==
    {AddCall(b, t, n, p) : t \in AddTypes, n \in Names, p \in ProvidedIdsOf(b)}

\* every call of the registry specifications, with the ids it names
RegistryCalls(b) ==
    {[op |-> c.op, ids |-> {c.provided_id}, out |-> c.out] : c \in RegistryAdds(b)}
    \cup {[op |-> "remove", ids |-> {i}, out |-> RemoveComponent(b, i)]
          : i \in KnownIdsOf(b)}
    \cup {[op |-> "update_fifo", ids |-> {i, j}, out |-> UpdateFifo(b, i, j)]
          : i \in KnownIdsOf(b), j \in KnownIdsOf(b)}

\* the entity is an element of the Program dictionary of its namespace (`is`)
StoredIn(b, comp_type, component) ==
    \E i \in DOMAIN b.program[FieldOf(comp_type)] :
        b.program[FieldOf(comp_type)][i][2].oid = component.oid

\* the entity a call on builder b constructs
IsNewEntity(b, component) == component.oid = b.next_oid

AddOps == {"add_tile", "add_constant", "add_tensor_type", "add_fifo"}

-----------------------------------------------------------------------------
\* C1: an add_* call whose provided_id is already registered returns ok with
\* that id, lookup_by_id(provided_id) then returns the entity the call built,
\* and the entity the id named before is no longer stored in the Program
\* dictionary of its namespace.
C1_UpdateReplacesOldEntity ==
    \A c \in RegistryAdds(Now) :
        (Truthy(c.provided_id) /\ c.provided_id \in DOMAIN id_map) =>
            LET old == id_map[c.provided_id]
                found == LookupById(c.out.builder, c.provided_id)
            IN  /\ c.out.result.success
                /\ c.out.result.id = c.provided_id
                /\ found.success
                /\ IsNewEntity(Now, found.component)
                /\ found.component.name = c.name
                /\ ~StoredIn(c.out.builder, old.type, old.component)

-----------------------------------------------------------------------------
\* C2: an id that a successful add_* registered stays registered with the
\* same entity, and lookup_by_id(id) keeps returning it, across every call
\* that names another id or none (add, update, remove, update_fifo); and the
\* add_* that registers an id makes lookup_by_id return the entity it built.
C2_LookupStableUnderOtherIds ==
    /\ \A c \in RegistryCalls(Now) : \A comp_id \in DOMAIN id_map :
            comp_id \notin c.ids =>
                /\ LookupById(c.out.builder, comp_id).success
                /\ LookupById(c.out.builder, comp_id) = LookupById(Now, comp_id)
    /\ \A c \in RegistryAdds(Now) :
            c.out.path \in {"generate", "insert", "update"} =>
                /\ LookupById(c.out.builder, c.out.result.id).success
                /\ IsNewEntity(Now, LookupById(c.out.builder, c.out.result.id).component)

\* two ids have been generated, a removal has just succeeded and an id is
\* still registered and looked up
C2_Witness ==
    /\ last.op = "remove" /\ last.path = "removed"
    /\ \E comp_id \in DOMAIN id_map : LookupById(Now, comp_id).success
    /\ next_uuid > 2

-----------------------------------------------------------------------------
\* the entity a dependency entry names is held by the Program
DependentHeld(b, dep) ==
    CASE dep.kind = "Worker" -> Has(b.program.workers, dep.name)
      [] dep.kind = "FIFO" -> Has(b.program.fifos, dep.name)
      [] dep.kind = "Runtime" -> b.program.runtime # NoneV
                                 /\ b.program.runtime.name = dep.name

\* C3: remove(id) of a component whose dependency set is not empty fails
\* with DEPENDENCY_EXISTS, its dependencies list the dependents (entities
\* the Program holds), and the Program and the three registry tables are
\* what they were before the call.
C3_BlockedRemoveChangesNothing ==
    \A comp_id \in DOMAIN id_map :
        LET deps == CheckDependencies(Now, id_map[comp_id].type, id_map[comp_id].component)
            out == RemoveComponent(Now, comp_id)
        IN  deps # <<>> =>
                /\ ~out.result.success
                /\ out.result.error_code = "dependency_exists"
                /\ out.result.dependencies = deps
                /\ \A i \in DOMAIN deps : DependentHeld(Now, deps[i])
                /\ out.builder.program = program
                /\ out.builder.id_map = id_map
                /\ out.builder.name_index = name_index
                /\ out.builder.component_to_id = component_to_id

\* a removal has just been refused for its dependents
C3_Witness ==
    /\ last.op = "remove" /\ last.code = "dependency_exists"
    /\ \E comp_id \in DOMAIN id_map :
           CheckDependencies(Now, id_map[comp_id].type, id_map[comp_id].component) # <<>>

-----------------------------------------------------------------------------
\* C4: an add_* call without provided_id whose (namespace, name) key is
\* bound in the name index fails with DUPLICATE_NAME, names the id the key
\* is bound to, registers nothing and leaves the Program as it was.
C4_DuplicateNameRefused ==
    \A c \in RegistryAdds(Now) :
        (c.provided_id = NoneV /\ <<c.comp_type, c.name>> \in DOMAIN name_index) =>
            /\ ~c.out.result.success
            /\ c.out.result.error_code = "duplicate_name"
            /\ c.out.result.error_message.existing_id = name_index[<<c.comp_type, c.name>>]
            /\ c.out.builder = Now

-----------------------------------------------------------------------------
\* C5: after an update (an add_* call whose provided_id is registered) the
\* name index binds (namespace, new name) to provided_id; when the update
\* changes the name, the key the entity was registered under, (namespace,
\* old name), is bound no longer; when it keeps the name, that name is
\* bound to provided_id under one key only.
C5_UpdateRewritesNameIndex ==
    \A c \in RegistryAdds(Now) :
        (Truthy(c.provided_id) /\ c.provided_id \in DOMAIN id_map) =>
            LET old == id_map[c.provided_id]
                index == c.out.builder.name_index
            IN  /\ <<c.comp_type, c.name>> \in DOMAIN index
                /\ index[<<c.comp_type, c.name>>] = c.provided_id
                /\ old.component.name # c.name =>
                       <<old.type, old.component.name>> \notin DOMAIN index
                /\ old.component.name = c.name =>
                       {k \in DOMAIN index : k[2] = c.name /\ index[k] = c.provided_id}
                           = {<<c.comp_type, c.name>>}

-----------------------------------------------------------------------------
\* C6: after a successful remove(id), lookup_by_id(id) is NOT_FOUND,
\* lookup_by_name of the removed (namespace, name) finds nothing, the name
\* is absent from the Program dictionary, and every other registered entity
\* is registered as before and, if the Program stored it, still stored.
C6_RemoveLeavesOthers ==
    \A comp_id \in DOMAIN id_map :
        LET old == id_map[comp_id]
            out == RemoveComponent(Now, comp_id)
        IN  out.result.success =>
                /\ LookupById(out.builder, comp_id).error_code = "not_found"
                /\ LookupByName(out.builder, old.type, old.component.name)
                       = ResultError("not_found",
                                     [type |-> old.type, name |-> old.component.name], NoneV)
                /\ ~Has(out.builder.program[FieldOf(old.type)], old.component.name)
                /\ \A other \in (DOMAIN id_map) \ {comp_id} :
                       /\ LookupById(out.builder, other) = LookupById(Now, other)
                       /\ StoredIn(Now, id_map[other].type, id_map[other].component)
                              => StoredIn(out.builder, id_map[other].type,
                                          id_map[other].component)

-----------------------------------------------------------------------------
\* C7: a name registered under one namespace tag can be registered under
\* another (constant and tensor_type, tile and fifo): the second add
\* succeeds with an id of its own, and lookup_by_name retrieves each entity
\* under its namespace.
C7_NamespacesAreIndependent ==
    \A key \in DOMAIN name_index :
        \A comp_type \in AddTypes :
            (/\ comp_type # key[1]
             /\ <<comp_type, key[2]>> \notin DOMAIN name_index
             /\ LookupByName(Now, key[1], key[2]) # KeyError) =>
                LET out == AddCall(Now, comp_type, key[2], NoneV).out
                    first == LookupByName(out.builder, key[1], key[2])
                    second == LookupByName(out.builder, comp_type, key[2])
                IN  /\ out.result.success
                    /\ out.result.id # name_index[key]
                    /\ first = LookupByName(Now, key[1], key[2])
                    /\ second # KeyError /\ second.success
                    /\ second.id = out.result.id
                    /\ IsNewEntity(Now, second.component)

-----------------------------------------------------------------------------
\* what C8 says of the add_* call c made on the current builder: it succeeds
\* under provided_id with the entity it built, and the identical call made
\* again succeeds under the same id and leaves one component there: the
\* registry holds the same ids, the Program dictionary the same names, the
\* second call's entity is stored and the first call's is not.
InsertsUnderProvidedId(c) ==
    LET first == c.out.builder
        again == AddCall(first, c.comp_type, c.name, c.provided_id).out
        field == FieldOf(c.comp_type)
        one == LookupById(first, c.provided_id)
        two == LookupById(again.builder, c.provided_id)
    IN  /\ c.out.result.success
        /\ c.out.result.id = c.provided_id
        /\ one.success /\ IsNewEntity(Now, one.component)
        /\ DOMAIN first.id_map = (DOMAIN id_map) \cup {c.provided_id}
        /\ again.result.success
        /\ again.result.id = c.provided_id
        /\ two.success /\ IsNewEntity(first, two.component)
        /\ PyEq(two.component, one.component)
        /\ DOMAIN again.builder.id_map = DOMAIN first.id_map
        /\ Keys(again.builder.program[field]) = Keys(first.program[field])
        /\ Len(again.builder.program[field]) = Len(first.program[field])
        /\ StoredIn(again.builder, c.comp_type, two.component)
        /\ ~StoredIn(again.builder, c.comp_type, one.component)

-----------------------------------------------------------------------------
\* the name a reference points at: the name itself, or the object's name
RefName(ref) == IF IsStr(ref) THEN ref.s ELSE ref.name

\* some Worker of the Program has a FifoBinding pointing at the name
BoundByWorker(b, name) ==
    \E i \in DOMAIN b.program.workers :
        \E j \in DOMAIN b.program.workers[i][2].fn_args :
            LET arg == b.program.workers[i][2].fn_args[j]
            IN  arg.cls = "FifoBinding" /\ RefName(arg.fifo) = name

\* C9: remove(fifo_id) is refused with DEPENDENCY_EXISTS whenever some
\* Worker's fn_args holds a FifoBinding pointing at that FIFO, whichever of
\* the FIFO and the Worker was added first.
C9_BoundFifoNotRemovable ==
    \A comp_id \in DOMAIN id_map :
        (/\ id_map[comp_id].type = "fifo"
         /\ StoredIn(Now, "fifo", id_map[comp_id].component)
         /\ BoundByWorker(Now, id_map[comp_id].component.name)) =>
            LET out == RemoveComponent(Now, comp_id)
            IN  ~out.result.success /\ out.result.error_code = "dependency_exists"

-----------------------------------------------------------------------------
\* the Program's RuntimeSequence lists the name in its start set
StartedByRuntime(b, name) ==
    /\ b.program.runtime # NoneV
    /\ \E i \in DOMAIN b.program.runtime.workers :
           RefName(b.program.runtime.workers[i]) = name

\* C10: remove(worker_id) is refused with DEPENDENCY_EXISTS whenever the
\* Program's runtime sequence lists that worker in its start set.
C10_StartedWorkerNotRemovable ==
    \A comp_id \in DOMAIN id_map :
        (/\ id_map[comp_id].type = "worker"
         /\ StoredIn(Now, "worker", id_map[comp_id].component)
         /\ StartedByRuntime(Now, id_map[comp_id].component.name)) =>
            LET out == RemoveComponent(Now, comp_id)
            IN  ~out.result.success /\ out.result.error_code = "dependency_exists"

-----------------------------------------------------------------------------
\* C11: a name given to an add_* call where an entity reference is required,
\* and that does not resolve in the Program dictionary of its namespace, is
\* stored unchanged as a string in the created entity's reference field: a
\* Worker's core_fn, placement and FifoBinding fifo, and a FIFO's producer
\* and each of its consumers.
C11_UnresolvedNamesKept ==
    \A ref \in DepNames :
        LET fifo == AddFifo(Now, ref, Str("a"), 2, Str(ref), <<Str(ref)>>, NoneV)
            worker == AddWorker(Now, ref, Str(ref),
                                <<BindingTuple(Str(ref), "cons", NoneV)>>, Str(ref), NoneV)
        IN  /\ (worker.result.success /\ ~Has(program.core_functions, ref)) =>
                   worker.result.component.core_fn = Str(ref)
            /\ (worker.result.success /\ ~Has(program.tiles, ref)) =>
                   worker.result.component.placement = Str(ref)
            /\ (worker.result.success /\ ~Has(program.fifos, ref)) =>
                   worker.result.component.fn_args[1].fifo = Str(ref)
            /\ (fifo.result.success /\ ~Has(program.tiles, ref)) =>
                   /\ fifo.result.component.producer = Str(ref)
                   /\ fifo.result.component.consumers = <<Str(ref)>>

-----------------------------------------------------------------------------
(* Split and join operations, Program.validate and ProgramBuilder.build. *)

SplitOperation(name, source, num_outputs, output_type, output_names, offsets, placement) ==
    [cls |-> "SplitOperation", name |-> name, source |-> source,
     num_outputs |-> num_outputs, output_type |-> output_type,
     output_names |-> output_names, offsets |-> offsets, placement |-> placement]

JoinOperation(name, dest, num_inputs, input_type, input_names, offsets, placement) ==
    [cls |-> "JoinOperation", name |-> name, dest |-> dest,
     num_inputs |-> num_inputs, input_type |-> input_type,
     input_names |-> input_names, offsets |-> offsets, placement |-> placement]

\* dict.get(ref, ref) for a name, the reference itself for an object
ResolveOrKeep(dict, ref) == IF IsStr(ref) THEN DictGet(dict, ref.s, ref) ELSE ref

\* add_fifo_split: the operation is stored as the value of a Symbol
AddFifoSplit(b, name, source, num_outputs, output_type, output_names, offsets, placement, provided_id) ==
    LET split_op == SplitOperation(name, ResolveOrKeep(b.program.fifos, source),
                                   num_outputs, output_type, output_names, offsets,
                                   ResolveOrKeep(b.program.tiles, placement))
        symbol == Symbol(b.next_oid, name, split_op, Str("SplitOperation"), FALSE)
    IN  AddComponent(b, "symbols", "fifo_split", name, symbol, split_op, provided_id)

\* add_fifo_join
AddFifoJoin(b, name, dest, num_inputs, input_type, input_names, offsets, placement, provided_id) ==
    LET join_op == JoinOperation(name, ResolveOrKeep(b.program.fifos, dest),
                                 num_inputs, input_type, input_names, offsets,
                                 ResolveOrKeep(b.program.tiles, placement))
        symbol == Symbol(b.next_oid, name, join_op, Str("JoinOperation"), FALSE)
    IN  AddComponent(b, "symbols", "fifo_join", name, symbol, join_op, provided_id)

\* One message of the list Program.validate returns, as the values it is formatted from.
Violation(kind, subject, name) == [kind |-> kind, subject |-> subject, name |-> name]

\* Program.validate: the messages, in the order the three loops append them
Validate(prog) ==
    LET dicts == <<prog.symbols, prog.tiles, prog.fifos,
                   prog.external_kernels, prog.core_functions, prog.workers>>
        names == Concat([d \in DOMAIN dicts |->
                            [i \in DOMAIN dicts[d] |-> dicts[d][i][1]]])
        duplicates ==
            Concat([i \in DOMAIN names |->
                       IF \E j \in 1..(i - 1) : names[j] = names[i]
                       THEN <<Violation("duplicate_name", NoneV, names[i])>>
                       ELSE <<>>])
        OfWorker(worker) ==
            IF IsStr(worker.core_fn) /\ ~Has(prog.core_functions, worker.core_fn.s)
            THEN <<Violation("unknown_core_function", worker.name, worker.core_fn.s)>>
            ELSE <<>>
        OfFifo(fifo) ==
            (IF fifo.producer # NoneV /\ ~Has(prog.tiles, fifo.producer.name)
             THEN <<Violation("unknown_producer", fifo.name, fifo.producer.name)>>
             ELSE <<>>)
            \o Concat([i \in DOMAIN fifo.consumers |->
                          IF ~Has(prog.tiles, fifo.consumers[i].name)
                          THEN <<Violation("unknown_consumer", fifo.name,
                                           fifo.consumers[i].name)>>
                          ELSE <<>>])
    IN  duplicates
        \o Concat([i \in DOMAIN prog.workers |-> OfWorker(prog.workers[i][2])])
        \o Concat([i \in DOMAIN prog.fifos |-> OfFifo(prog.fifos[i][2])])

\* a build that reports the first violation only
BuildFirstViolation(b) ==
    LET errors == Validate(b.program)
    IN  IF errors # <<>>
        THEN [raised |-> "ValueError", errors |-> <<errors[1]>>, program |-> NoneV]
        ELSE [raised |-> "", errors |-> <<>>, program |-> b.program]

\* ProgramBuilder.build: the Program, or the ValueError raised with the
\* messages its text joins after "Program validation failed:"
Build(b) ==
    LET errors == Validate(b.program)
    IN  IF errors # <<>>
        THEN [raised |-> "ValueError", errors |-> errors, program |-> NoneV]
        ELSE [raised |-> "", errors |-> <<>>, program |-> b.program]

-----------------------------------------------------------------------------
(* The build specification: components with references between them,       *)
(* splits and joins, removals, and build().                                 *)

\* add_fifo with a producer and consumers
DoAddFifoBetween(names, types, producers, consumer_lists, max) ==
    \E name \in names, obj_type \in types, producer \in producers,
       consumers \in consumer_lists, provided_id \in ProvidedIds :
        Apply("add_fifo", AddFifo(Now, name, obj_type, 2, producer, consumers, provided_id),
              max)

\* add_fifo_split; a size is <<num_outputs, output_names, offsets>>
DoAddFifoSplit(names, sources, sizes, max) ==
    \E name \in names, source \in sources, size \in sizes, provided_id \in ProvidedIds :
        Apply("add_fifo_split",
              AddFifoSplit(Now, name, source, size[1], Str("a"), size[2], size[3],
                           Str("a"), provided_id), max)

\* add_fifo_join; a size is <<num_inputs, input_names, offsets>>
DoAddFifoJoin(names, dests, sizes, max) ==
    \E name \in names, dest \in dests, size \in sizes, provided_id \in ProvidedIds :
        Apply("add_fifo_join",
              AddFifoJoin(Now, name, dest, size[1], Str("a"), size[2], size[3],
                          Str("a"), provided_id), max)

\* ProgramBuilder.build: nothing changes but what the caller has seen
DoBuild ==
    /\ last' = [op |-> "build", path |-> "",
                code |-> IF Build(Now).raised = "" THEN "success" ELSE Build(Now).raised]
    /\ UNCHANGED <<program, id_map, name_index, component_to_id, rt_builder, rt_calls,
                   next_oid, next_uuid>>
    /\ UNCHANGED <<driver_vars, graph_vars, codegen_vars, expander_vars>>

\* the list sizes given to add_fifo_split and add_fifo_join: matching, and not
BuildSizes == {<<1, <<"x">>, <<0>>>>, <<2, <<"x">>, <<0>>>>}

BuildArgLists == {<<>>, <<BindingTuple(Str("b"), "cons", NoneV)>>}

BuildNext ==
    \/ DoAddTile(DepNames, {0}, MaxBuildObjects)
    \/ DoAddFifoBetween(DepNames, {Str("a")}, {NoneV, Str("a")}, {<<>>, <<Str("a")>>},
                        MaxBuildObjects)
    \/ DoAddCoreFunction(DepNames, {NoneV}, MaxBuildObjects)
    \/ DoAddWorker({"w"}, {Str("a")}, BuildArgLists, {Str("a")}, MaxBuildObjects)
    \/ DoAddFifoSplit(DepNames, {Str("b")}, BuildSizes, MaxBuildObjects)
    \/ DoAddFifoJoin(DepNames, {Str("b")}, BuildSizes, MaxBuildObjects)
    \/ DoRemove(MaxBuildObjects)
    \/ DoBuild

BuildSpec == Init /\ [][BuildNext]_vars

-----------------------------------------------------------------------------
\* build() has just returned the Program
Built == last.op = "build" /\ last.code = "success"

\* the name is a declared FIFO, or a Split, Join or Forward symbol
DeclaredFifo(prog, name) ==
    \/ Has(prog.fifos, name)
    \/ /\ Has(prog.symbols, name)
       /\ At(prog.symbols, name).value.cls
              \in {"SplitOperation", "JoinOperation", "ForwardOperation"}

\* C12: in a Program that build() returned, every Worker's core_fn resolves,
\* by name or by reference, to an entry of program.core_functions, and every
\* FifoBinding of its fn_args resolves to a declared FIFO or to a Split,
\* Join or Forward symbol.
C12_BuiltWorkersResolve ==
    Built =>
        \A i \in DOMAIN program.workers :
            LET worker == program.workers[i][2]
            IN  /\ Has(program.core_functions, RefName(worker.core_fn))
                /\ \A j \in DOMAIN worker.fn_args :
                       worker.fn_args[j].cls = "FifoBinding" =>
                           DeclaredFifo(program, RefName(worker.fn_args[j].fifo))

-----------------------------------------------------------------------------
\* the violations of a Program, each as Program.validate words it: a name
\* that two of the dictionaries hold, a Worker whose core function name is
\* unknown, a FIFO whose producer or consumer tile is unknown
DictFields == {"symbols", "tiles", "fifos", "external_kernels", "core_functions", "workers"}

ViolationsOf(prog) ==
    {Violation("duplicate_name", NoneV, n) :
        n \in {k \in UNION {Keys(prog[f]) : f \in DictFields} :
                  \E f, g \in DictFields : f # g /\ Has(prog[f], k) /\ Has(prog[g], k)}}
    \cup {Violation("unknown_core_function", w.name, w.core_fn.s) :
             w \in {prog.workers[i][2] : i \in
                       {i \in DOMAIN prog.workers :
                           /\ IsStr(prog.workers[i][2].core_fn)
                           /\ ~Has(prog.core_functions, prog.workers[i][2].core_fn.s)}}}
    \cup {Violation("unknown_producer", q.name, q.producer.name) :
             q \in {prog.fifos[i][2] : i \in
                       {i \in DOMAIN prog.fifos :
                           /\ prog.fifos[i][2].producer # NoneV
                           /\ ~Has(prog.tiles, prog.fifos[i][2].producer.name)}}}
    \cup UNION {{Violation("unknown_consumer", prog.fifos[i][2].name,
                           prog.fifos[i][2].consumers[j].name) :
                    j \in {j \in DOMAIN prog.fifos[i][2].consumers :
                              ~Has(prog.tiles, prog.fifos[i][2].consumers[j].name)}}
                : i \in DOMAIN prog.fifos}

\* C13: build() returns the Program exactly when validation finds no
\* violation; otherwise it raises one ValueError whose message lists every
\* violation of the Program that validation words, not only the first.
C13_BuildListsEveryViolation ==
    LET out == Build(Now)
    IN  /\ out.raised = "" <=> ViolationsOf(program) = {}
        /\ out.raised = "" => out.program = program
        /\ out.raised # "" =>
               /\ out.raised = "ValueError"
               /\ out.program = NoneV
               /\ {out.errors[i] : i \in DOMAIN out.errors} = ViolationsOf(program)
               /\ out.errors = Validate(program)

\* build() has just failed on a Program with more than one kind of violation
C13_Witness ==
    /\ last.op = "build" /\ last.code = "ValueError"
    /\ Cardinality(ViolationsOf(program)) >= 2

-----------------------------------------------------------------------------
\* C14: in a Program that build() returned, every Split operation has
\* len(output_names) = num_outputs = len(offsets) and every Join operation
\* len(input_names) = num_inputs = len(offsets).
C14_BuiltSplitsAreSized ==
    Built =>
        \A i \in DOMAIN program.symbols :
            LET op == program.symbols[i][2].value
            IN  /\ op.cls = "SplitOperation" =>
                       /\ Len(op.output_names) = op.num_outputs
                       /\ Len(op.offsets) = op.num_outputs
                /\ op.cls = "JoinOperation" =>
                       /\ Len(op.input_names) = op.num_inputs
                       /\ Len(op.offsets) = op.num_inputs

-----------------------------------------------------------------------------
(* RuntimeBuilder's other add_* methods.  tap and metadata are left at      *)
(* their defaults (None, {}) throughout.                                    *)

RuntimeFill(placement, fifo, source_param) ==
    [cls |-> "RuntimeFill", placement |-> placement, fifo |-> fifo,
     source_param |-> source_param]

RuntimeDrain(placement, fifo, dest_param, wait) ==
    [cls |-> "RuntimeDrain", placement |-> placement, fifo |-> fifo,
     dest_param |-> dest_param, wait |-> wait]

\* RuntimeBuilder.add_input_type
RuntimeAddInputType(runtime, type_ref) ==
    [runtime EXCEPT !.input_types = Append(@, type_ref)]

\* RuntimeBuilder.add_output_type
RuntimeAddOutputType(runtime, type_ref) ==
    [runtime EXCEPT !.output_types = Append(@, type_ref)]

\* add_params had it extended the list
RuntimeAddParamsExtending(runtime, param_names) ==
    [runtime EXCEPT !.param_names = @ \o param_names]

\* RuntimeBuilder.add_params: self.runtime.param_names = param_names
RuntimeAddParams(runtime, param_names) ==
    [runtime EXCEPT !.param_names = param_names]

\* add_fill had it put the operation in front
RuntimeAddFillFirst(b, runtime, name, fifo, source_param, placement) ==
    [runtime EXCEPT !.operations =
        <<RuntimeFill(ResolveOrKeep(b.program.tiles, placement),
                      ResolveOrKeep(b.program.fifos, fifo), source_param)>> \o @]

\* RuntimeBuilder.add_fill; the name argument is not recorded
RuntimeAddFill(b, runtime, name, fifo, source_param, placement) ==
    [runtime EXCEPT !.operations =
        Append(@, RuntimeFill(ResolveOrKeep(b.program.tiles, placement),
                              ResolveOrKeep(b.program.fifos, fifo), source_param))]

\* RuntimeBuilder.add_drain; the name argument is not recorded
RuntimeAddDrain(b, runtime, name, fifo, dest_param, placement, wait) ==
    [runtime EXCEPT !.operations =
        Append(@, RuntimeDrain(ResolveOrKeep(b.program.tiles, placement),
                               ResolveOrKeep(b.program.fifos, fifo), dest_param, wait))]

-----------------------------------------------------------------------------
(* The runtime: RuntimeBuilders filled by add_* calls and handed to the     *)
(* Program by build().                                                      *)

\* most RuntimeBuilders created under RuntimeSpec
MaxRuntimeObjects == 1
\* most add_* calls made on one RuntimeBuilder, add_worker aside
MaxRuntimeCalls == 2

\* an add_* call of the RuntimeBuilder: the RuntimeSequence is mutated in
\* place, so a Program that already holds it sees the change
RuntimeCall(method, args, runtime) ==
    /\ rt_builder # NoneV
    /\ Len(rt_calls) < MaxRuntimeCalls
    /\ rt_builder' = runtime
    /\ rt_calls' = Append(rt_calls, [method |-> method, args |-> args])
    /\ program' = Aliased(program, runtime)
    /\ last' = [op |-> "rt." \o method, path |-> "", code |-> "success"]
    /\ UNCHANGED <<id_map, name_index, component_to_id, next_oid, next_uuid>>
    /\ UNCHANGED <<driver_vars, graph_vars, codegen_vars, expander_vars>>

DoRuntimeAddInputType(types) ==
    \E type_ref \in types :
        RuntimeCall("add_input_type", <<type_ref>>,
                    RuntimeAddInputType(rt_builder, type_ref))

DoRuntimeAddOutputType(types) ==
    \E type_ref \in types :
        RuntimeCall("add_output_type", <<type_ref>>,
                    RuntimeAddOutputType(rt_builder, type_ref))

DoRuntimeAddParams(param_lists) ==
    \E param_names \in param_lists :
        RuntimeCall("add_params", <<param_names>>,
                    RuntimeAddParams(rt_builder, param_names))

DoRuntimeAddFill(fifos, params, placements) ==
    \E fifo \in fifos, source_param \in params, placement \in placements :
        RuntimeCall("add_fill", <<fifo, source_param, placement>>,
                    RuntimeAddFill(Now, rt_builder, "fill", fifo, source_param, placement))

DoRuntimeAddDrain(fifos, params, placements) ==
    \E fifo \in fifos, dest_param \in params, placement \in placements :
        RuntimeCall("add_drain", <<fifo, dest_param, placement, TRUE>>,
                    RuntimeAddDrain(Now, rt_builder, "drain", fifo, dest_param, placement,
                                    TRUE))

WorkerNames == {"w1", "w2"}
\* a Tile object the caller built and passes as the placement
ShimTile == Tile(0, "t", 0)

RuntimeNext ==
    \/ DoCreateRuntime(MaxRuntimeObjects)
    \/ DoRuntimeAddInputType({Str("ty")})
    \/ DoRuntimeAddOutputType({Str("ty")})
    \/ DoRuntimeAddParams({<<Str("A")>>, <<Str("B")>>})
    \/ DoRuntimeAddWorker({Str(n) : n \in WorkerNames}, MaxStart)
    \/ DoRuntimeAddFill({Str("f")}, {Str("A")}, {ShimTile})
    \/ DoRuntimeAddDrain({Str("f")}, {Str("B")}, {ShimTile})
    \/ DoRuntimeBuild

RuntimeSpec == Init /\ [][RuntimeNext]_vars

-----------------------------------------------------------------------------
\* the calls of one method in the log, in call order
CallsOf(method) == SelectSeq(rt_calls, LAMBDA c : c.method = method)

\* the first argument of each call of the method, in call order
Supplied(method) == [i \in DOMAIN CallsOf(method) |-> CallsOf(method)[i].args[1]]

\* the fill and drain calls of the log as (kind, fifo name, parameter)
SuppliedOperations ==
    LET calls == SelectSeq(rt_calls, LAMBDA c : c.method \in {"add_fill", "add_drain"})
    IN  [i \in DOMAIN calls |->
            <<IF calls[i].method = "add_fill" THEN "RuntimeFill" ELSE "RuntimeDrain",
              calls[i].args[1].s, calls[i].args[2]>>]

\* an operation of the RuntimeSequence as (kind, fifo name, parameter)
OperationKey(op) ==
    <<op.cls, RefName(op.fifo),
      IF op.cls = "RuntimeFill" THEN op.source_param ELSE op.dest_param>>

\* the fields every add_* method but add_params fills hold what those calls
\* supplied, in call order
AppendedFieldsKept ==
    /\ rt_builder.input_types = Supplied("add_input_type")
    /\ rt_builder.output_types = Supplied("add_output_type")
    /\ [i \in DOMAIN rt_builder.workers |-> RefName(rt_builder.workers[i])]
           = [i \in DOMAIN Supplied("add_worker") |-> Supplied("add_worker")[i].s]
    /\ [i \in DOMAIN rt_builder.operations |-> OperationKey(rt_builder.operations[i])]
           = SuppliedOperations

-----------------------------------------------------------------------------
(* GUI XML.  An element is its tag, its attributes in the order they were   *)
(* set, its text and its children.  A text is the sequence of its pieces,   *)
(* a "," piece being the separator of a comma-separated list, so <<>> is    *)
(* the empty text; whitespace around a piece is not modelled.               *)

Element(tag, attrib, text, children) ==
    [tag |-> tag, attrib |-> attrib, text |-> text, children |-> children]

\* Element.find(tag): the first child with the tag, or None
Find(elem, tag) ==
    IF \E i \in DOMAIN elem.children : elem.children[i].tag = tag
    THEN elem.children[CHOOSE i \in DOMAIN elem.children :
                           /\ elem.children[i].tag = tag
                           /\ \A j \in 1..(i - 1) : elem.children[j].tag # tag]
    ELSE NoneV

\* Element.findall(tag): the children with the tag, in document order
FindAll(elem, tag) == SelectSeq(elem.children, LAMBDA c : c.tag = tag)

\* bool(element) of xml.etree.ElementTree: an element without children is false
ElementTruthy(elem) == elem # NoneV /\ elem.children # <<>>

\* ', '.join(names)
RECURSIVE JoinComma(_)
JoinComma(names) ==
    IF names = <<>> THEN <<>>
    ELSE IF Len(names) = 1 THEN <<names[1]>>
    ELSE <<names[1], ",">> \o JoinComma(Tail(names))

\* the pieces of a text glued into one str
RECURSIVE Glue(_)
Glue(text) == IF text = <<>> THEN "" ELSE Head(text) \o Glue(Tail(text))

\* [t.strip() for t in text.split(',')] if text else []
RECURSIVE SplitPieces(_)
SplitPieces(text) ==
    IF \E i \in DOMAIN text : text[i] = ","
    THEN LET i == CHOOSE i \in DOMAIN text :
                      text[i] = "," /\ \A j \in 1..(i - 1) : text[j] # ","
         IN  <<Glue(SubSeq(text, 1, i - 1))>> \o SplitPieces(SubSeq(text, i + 1, Len(text)))
    ELSE <<Glue(text)>>

SplitComma(text) == IF text = <<>> THEN <<>> ELSE SplitPieces(text)

\* f"Tile({placement.x}, {placement.y})"; a Tile of the model carries x only
TileText(placement) == <<"Tile", placement.x>>

\* ProgramBuilderFromXML.parse_tile: the name the builder is to look up
ParseTile(text) ==
    IF text = <<>> THEN Str("shim0")
    ELSE IF Len(text) = 2 /\ text[1] = "Tile" THEN Str("tile_" \o ToString(text[2]))
    ELSE Str(Glue(text))

-----------------------------------------------------------------------------
(* GUIXMLSerializer: the Worker and Runtime elements of DataFlow. *)

\* x if isinstance(x, str) else x.name
NameOf(ref) == IF IsStr(ref) THEN ref.s ELSE ref.name

\* _add_gui_worker
GuiWorker(worker) ==
    Element("Worker", <<<<"name", worker.name>>>>, <<>>,
            << Element("core_function", <<>>, <<NameOf(worker.core_fn)>>, <<>>),
               Element("arguments", <<>>, <<>>,
                       [i \in DOMAIN worker.fn_args |->
                           LET arg == worker.fn_args[i]
                           IN  IF arg.cls = "FifoBinding"
                               THEN Element("arg",
                                            <<<<"ref", NameOf(arg.fifo)>>>>
                                            \o (IF arg.index # NoneV
                                                THEN <<<<"index", arg.index>>>> ELSE <<>>)
                                            \o <<<<"mode", IF arg.mode = "cons"
                                                           THEN "consumer"
                                                           ELSE "producer">>>>,
                                            <<>>, <<>>)
                               ELSE Element("arg", <<<<"ref", NameOf(arg)>>>>, <<>>, <<>>)]),
               Element("placement", <<>>, TileText(worker.placement), <<>>) >>)

\* _add_gui_fill_operation
GuiFill(fill_op) ==
    Element("Fill", << <<"target", NameOf(fill_op.fifo)>>,
                       <<"source", fill_op.source_param.s>>,
                       <<"use_tap", "false">> >>, <<>>,
            <<Element("placement", <<>>, TileText(fill_op.placement), <<>>)>>)

\* _add_gui_drain_operation
GuiDrain(drain_op) ==
    Element("Drain", << <<"source", NameOf(drain_op.fifo)>>,
                        <<"target", drain_op.dest_param.s>>,
                        <<"use_tap", "false">> >>, <<>>,
            <<Element("placement", <<>>, TileText(drain_op.placement), <<>>)>>
            \o (IF drain_op.wait THEN <<Element("wait", <<>>, <<"true">>, <<>>)>>
                ELSE <<>>))

\* _add_gui_runtime
GuiRuntime(runtime) ==
    LET all_types == runtime.input_types \o runtime.output_types
        inputs == IF all_types # <<>>
                  THEN <<<<"inputs", JoinComma([i \in DOMAIN all_types |-> all_types[i].s])>>>>
                  ELSE <<>>
        as == IF runtime.param_names # <<>>
              THEN <<<<"as", JoinComma([i \in DOMAIN runtime.param_names |->
                                           runtime.param_names[i].s])>>>>
              ELSE <<>>
        start == IF runtime.workers # <<>>
                 THEN <<Element("StartWorkers", <<>>,
                                JoinComma([i \in DOMAIN runtime.workers |->
                                              NameOf(runtime.workers[i])]), <<>>)>>
                 ELSE <<>>
        ops == [i \in DOMAIN runtime.operations |->
                   IF runtime.operations[i].cls = "RuntimeFill"
                   THEN GuiFill(runtime.operations[i])
                   ELSE GuiDrain(runtime.operations[i])]
    IN  Element("Runtime", <<<<"name", runtime.name>>>>, <<>>,
                <<Element("Sequence", inputs \o as, <<>>, start \o ops)>>)

\* _add_dataflow: the workers in insertion order, then the runtime
GuiDataFlow(prog) ==
    Element("DataFlow", <<>>, <<>>,
            [i \in DOMAIN prog.workers |-> GuiWorker(prog.workers[i][2])]
            \o (IF prog.runtime # NoneV THEN <<GuiRuntime(prog.runtime)>> ELSE <<>>))

\* the serializer reads placement.x: a placement that is still a name raises
\* AttributeError
GuiSerializable(prog) ==
    /\ \A i \in DOMAIN prog.workers : ~IsStr(prog.workers[i][2].placement)
    /\ prog.runtime # NoneV =>
           \A i \in DOMAIN prog.runtime.operations :
               ~IsStr(prog.runtime.operations[i].placement)

-----------------------------------------------------------------------------
(* ProgramBuilderFromXML: the Worker and Runtime elements of DataFlow are   *)
(* replayed as builder calls.                                               *)

\* elem.get(key, default)
Attr(elem, key, default) == DictGet(elem.attrib, key, default)

\* safe_text(elem)
SafeText(elem) == IF elem # NoneV THEN elem.text ELSE <<>>

\* the fn_args list read from a worker's <arguments>
LoadArguments(args_elem) ==
    IF args_elem = NoneV THEN <<>>
    ELSE LET args == FindAll(args_elem, "arg")
         IN  [i \in DOMAIN args |->
                 IF Attr(args[i], "mode", "") # ""
                 THEN BindingTuple(Str(Attr(args[i], "ref", "")),
                                   IF Attr(args[i], "mode", "") = "consumer"
                                   THEN "cons" ELSE "prod",
                                   Attr(args[i], "index", NoneV))
                 ELSE Str(Attr(args[i], "ref", ""))]

\* for worker_elem in dataflow.findall('Worker'): builder.add_worker(...)
RECURSIVE LoadWorkers(_, _)
LoadWorkers(b, worker_elems) ==
    IF worker_elems = <<>> THEN b
    ELSE LET worker_elem == Head(worker_elems)
             name == Attr(worker_elem, "name", "")
             core_fn == Glue(SafeText(Find(worker_elem, "core_function")))
             added == AddWorker(b, name, Str(core_fn),
                                LoadArguments(Find(worker_elem, "arguments")),
                                ParseTile(SafeText(Find(worker_elem, "placement"))),
                                NoneV).builder
         IN  LoadWorkers(IF name # "" /\ core_fn # "" THEN added ELSE b,
                         Tail(worker_elems))

\* for input_type in input_types: rt.add_input_type(input_type)
RECURSIVE LoadInputTypes(_, _)
LoadInputTypes(runtime, input_types) ==
    IF input_types = <<>> THEN runtime
    ELSE LoadInputTypes(RuntimeAddInputType(runtime, Str(Head(input_types))),
                        Tail(input_types))

\* for worker_name in worker_names: if worker_name: rt.add_worker(worker_name)
RECURSIVE LoadStartWorkers(_, _, _)
LoadStartWorkers(b, runtime, worker_names) ==
    IF worker_names = <<>> THEN runtime
    ELSE LoadStartWorkers(b,
                          IF Head(worker_names) # ""
                          THEN RuntimeAddWorker(b, runtime, Str(Head(worker_names)))
                          ELSE runtime,
                          Tail(worker_names))

\* for fill_elem in seq_elem.findall('Fill'): rt.add_fill(...)
RECURSIVE LoadFills(_, _, _)
LoadFills(b, runtime, fill_elems) ==
    IF fill_elems = <<>> THEN runtime
    ELSE LET fill_elem == Head(fill_elems)
             target == Attr(fill_elem, "target", "")
             source == Attr(fill_elem, "source", "")
             placement == ParseTile(SafeText(Find(fill_elem, "placement")))
         IN  LoadFills(b,
                       IF target # "" /\ source # ""
                       THEN RuntimeAddFill(b, runtime, "fill_" \o target, Str(target),
                                           Str(source), placement)
                       ELSE runtime,
                       Tail(fill_elems))

\* for drain_elem in seq_elem.findall('Drain'): rt.add_drain(...)
RECURSIVE LoadDrains(_, _, _)
LoadDrains(b, runtime, drain_elems) ==
    IF drain_elems = <<>> THEN runtime
    ELSE LET drain_elem == Head(drain_elems)
             source == Attr(drain_elem, "source", "")
             target == Attr(drain_elem, "target", "")
             wait_elem == Find(drain_elem, "wait")
             wait == wait_elem # NoneV /\ SafeText(wait_elem) = <<"true">>
             placement == ParseTile(SafeText(Find(drain_elem, "placement")))
         IN  LoadDrains(b,
                        IF source # "" /\ target # ""
                        THEN RuntimeAddDrain(b, runtime, "drain_" \o source, Str(source),
                                             Str(target), placement, wait)
                        ELSE runtime,
                        Tail(drain_elems))

\* the Runtime part: types, parameters, start workers, then every Fill, then
\* every Drain, then rt.build()
LoadRuntime(b, dataflow) ==
    LET runtime_elem == Find(dataflow, "Runtime")
        seq_elem == Find(runtime_elem, "Sequence")
        input_types == SplitComma(Attr(seq_elem, "inputs", <<>>))
        params == SplitComma(Attr(seq_elem, "as", <<>>))
        param_names == [i \in DOMAIN params |-> Str(params[i])]
        created == RuntimeSequence(b.next_oid, Attr(runtime_elem, "name", "runtime"), <<>>)
        typed == LoadInputTypes(created, input_types)
        named == IF param_names # <<>> THEN RuntimeAddParams(typed, param_names) ELSE typed
        start_workers_elem == IF ElementTruthy(Find(seq_elem, "Start"))
                              THEN Find(seq_elem, "Start")
                              ELSE Find(seq_elem, "StartWorkers")
        started == IF start_workers_elem # NoneV /\ start_workers_elem.text # <<>>
                   THEN LoadStartWorkers(b, named, SplitComma(start_workers_elem.text))
                   ELSE named
        filled == LoadFills(b, started, FindAll(seq_elem, "Fill"))
        drained == LoadDrains(b, filled, FindAll(seq_elem, "Drain"))
    IN  IF runtime_elem = NoneV \/ seq_elem = NoneV THEN b
        ELSE [b EXCEPT !.next_oid = @ + 1, !.program.runtime = drained]

\* ProgramBuilderFromXML, for a document whose DataFlow holds Worker and
\* Runtime elements
ProgramBuilderFromXML(dataflow) ==
    LoadRuntime(LoadWorkers(NewBuilder, FindAll(dataflow, "Worker")), dataflow)

-----------------------------------------------------------------------------
(* XMLTransformer: the Runtime element of a GUI document becomes the List   *)
(* "Workers" and a SequenceBlock.  No ObjectFifo element is in the          *)
(* documents of the model, so objectfifo_names maps no name.                *)

\* _transform_start: rt.start with the Workers list as its argument
TransformStart(start_elem) ==
    Element("Operation", << <<"name", "start">>, <<"method", "start">> >>, <<>>,
            <<Element("var", <<<<"ref", "Workers">>>>, <<>>, <<>>)>>)

\* _transform_fill without a TensorAccessPattern: rt.fill(target.prod(), source)
TransformFill(fill_elem) ==
    Element("Operation", << <<"name", "fill_" \o Attr(fill_elem, "source", "")>>,
                            <<"method", "fill">> >>, <<>>,
            << Element("var", <<<<"ref", Attr(fill_elem, "target", "")>>>>, <<>>, <<>>),
               Element("var", <<<<"ref", Attr(fill_elem, "source", "")>>>>, <<>>, <<>>) >>)

\* _transform_drain without a TensorAccessPattern: rt.drain(source.cons(), target)
TransformDrain(drain_elem) ==
    Element("Operation", << <<"name", "drain_" \o Attr(drain_elem, "target", "")>>,
                            <<"method", "drain">> >>, <<>>,
            << Element("var", <<<<"ref", Attr(drain_elem, "source", "")>>>>, <<>>, <<>>),
               Element("var", <<<<"ref", Attr(drain_elem, "target", "")>>>>, <<>>, <<>>) >>)

\* _transform_sequence: the body is the start operation if the Sequence has a
\* Start child, then every Fill, then every Drain
TransformSequence(seq_elem) ==
    LET fills == FindAll(seq_elem, "Fill")
        drains == FindAll(seq_elem, "Drain")
    IN  Element("SequenceBlock", <<>>, <<>>,
                (IF Find(seq_elem, "Start") # NoneV
                 THEN <<TransformStart(Find(seq_elem, "Start"))>> ELSE <<>>)
                \o [i \in DOMAIN fills |-> TransformFill(fills[i])]
                \o [i \in DOMAIN drains |-> TransformDrain(drains[i])])

\* _transform_runtime: the Workers list names every Worker element of DataFlow
TransformRuntime(dataflow) ==
    LET worker_elems == FindAll(dataflow, "Worker")
        sequence == Find(Find(dataflow, "Runtime"), "Sequence")
    IN  [Workers |-> [i \in DOMAIN worker_elems |-> Attr(worker_elems[i], "name", NoneV)],
         SequenceBlock |-> IF sequence # NoneV THEN TransformSequence(sequence) ELSE NoneV]

-----------------------------------------------------------------------------
\* fill/drain operations as (kind, fifo name, host parameter)
OrderOfOperations(operations) ==
    [i \in DOMAIN operations |->
        <<IF operations[i].cls = "RuntimeFill" THEN "fill" ELSE "drain",
          NameOf(operations[i].fifo),
          IF operations[i].cls = "RuntimeFill" THEN operations[i].source_param.s
          ELSE operations[i].dest_param.s>>]

\* the Fill and Drain children of a GUI Sequence, in document order
OrderOfGuiSequence(seq_elem) ==
    LET elems == SelectSeq(seq_elem.children, LAMBDA c : c.tag \in {"Fill", "Drain"})
    IN  [i \in DOMAIN elems |->
            IF elems[i].tag = "Fill"
            THEN <<"fill", Attr(elems[i], "target", ""), Attr(elems[i], "source", "")>>
            ELSE <<"drain", Attr(elems[i], "source", ""), Attr(elems[i], "target", "")>>]

\* the rt.fill and rt.drain operations of a SequenceBlock body, in document order
OrderOfSequenceBlock(seq_block) ==
    LET elems == SelectSeq(seq_block.children,
                           LAMBDA c : Attr(c, "method", "") \in {"fill", "drain"})
    IN  [i \in DOMAIN elems |->
            <<Attr(elems[i], "method", ""), Attr(elems[i].children[1], "ref", ""),
              Attr(elems[i].children[2], "ref", "")>>]

\* the Program has a runtime and the serializer accepts it
Serialized == program.runtime # NoneV /\ GuiSerializable(program)

SerializationKeepsOrder ==
    Serialized =>
        OrderOfGuiSequence(Find(Find(GuiDataFlow(program), "Runtime"), "Sequence"))
            = OrderOfOperations(program.runtime.operations)

LoadingKeepsOrder ==
    Serialized =>
        OrderOfOperations(ProgramBuilderFromXML(GuiDataFlow(program)).program.runtime.operations)
            = OrderOfOperations(program.runtime.operations)

ExpansionKeepsOrder ==
    Serialized =>
        OrderOfSequenceBlock(TransformRuntime(GuiDataFlow(program)).SequenceBlock)
            = OrderOfOperations(program.runtime.operations)

\* C16: the Fill and Drain operations of a RuntimeSequence come out of GUI-XML
\* serialization, of GUI-XML loading into a builder and of GUI-XML to
\* Complete-XML expansion in the relative order in which they were inserted.
C16_StagesKeepOperationOrder ==
    /\ SerializationKeepsOrder
    /\ LoadingKeepsOrder
    /\ ExpansionKeepsOrder

-----------------------------------------------------------------------------
\* the names of the runtime's start-worker list, in append order
StartList == [i \in DOMAIN program.runtime.workers |-> NameOf(program.runtime.workers[i])]

\* the SequenceBlock body holds rt.start(*Workers)
StartsWorkersList(seq_block) ==
    \E i \in DOMAIN seq_block.children :
        /\ Attr(seq_block.children[i], "method", "") = "start"
        /\ Attr(seq_block.children[i].children[1], "ref", "") = "Workers"

\* C17: the Workers list produced by expansion has the members and the order
\* of RuntimeSequence.workers, and the expanded sequence starts that list
\* whenever the start-worker list is not empty.
C17_StartedWorkersAreTheStartList ==
    Serialized =>
        LET expanded == TransformRuntime(GuiDataFlow(program))
        IN  /\ expanded.Workers = StartList
            /\ StartList # <<>> => StartsWorkersList(expanded.SequenceBlock)

-----------------------------------------------------------------------------
(* The driver, main().  A file name is the sequence of its pieces, so that  *)
(* '_gui' in name is a test the model makes; each stage either returns or   *)
(* raises, and the child of --run returns a code after some seconds.        *)

\* subprocess.run(..., timeout=30)
TimeoutSeconds == 30

\* the command lines tried: no argument, a file, a file and a flag, too many
FileNames == {<<"a", ".xml">>, <<"a", ".txt">>, <<"a", "_gui", ".xml">>,
              <<"a", "_gui", "2", ".xml">>}
Argvs ==
    {<<"main.py">>}
    \cup {<<"main.py", f>> : f \in FileNames}
    \cup {<<"main.py", f, flag>> : f \in FileNames, flag \in {"--run", "--fast"}}
    \cup {<<"main.py", f, "--run", "x">> : f \in FileNames}

\* what the child can do: its returncode (negative when a signal killed it)
\* and the seconds it takes, or the failure to launch it at all
ChildRuns == [returncode : {0, 1, 2, -9}, seconds : {1, 31}] \cup {[raised |-> "OSError"]}

\* _is_gui_xml
IsGuiXml(xml_name) == \E i \in DOMAIN xml_name : xml_name[i] = "_gui"

\* sys.exit had it turned every failure into 1
ExitStatusOne(code) == IF code = 0 THEN 0 ELSE 1

\* the status a process ends with after sys.exit(code)
ExitStatus(code) == code % 256

\* sys.exit(code)
Exit(code) ==
    /\ pc' = "exited"
    /\ exit_status' = IntV(ExitStatus(code))

\* a stage had it gone on to the next stage after raising
StageIgnoringFailure(stage, outcome, next_pc) ==
    /\ pc = stage
    /\ stages' = Append(stages, [stage |-> stage, outcome |-> outcome])
    /\ pc' = next_pc /\ exit_status' = exit_status
    /\ UNCHANGED <<argv, is_file>>
    /\ UNCHANGED <<builder_vars, graph_vars, codegen_vars, expander_vars>>

\* one try/except block of main(): the stage runs; if it raised, the error is
\* printed and the driver exits with 1, otherwise the next stage is due
Stage(stage, outcome, next_pc) ==
    /\ pc = stage
    /\ stages' = Append(stages, [stage |-> stage, outcome |-> outcome])
    /\ IF outcome = "raised" THEN Exit(1)
       ELSE pc' = next_pc /\ exit_status' = exit_status
    /\ UNCHANGED <<argv, is_file>>
    /\ UNCHANGED <<builder_vars, graph_vars, codegen_vars, expander_vars>>

\* argument parsing and validation
MainArguments ==
    /\ pc = "main"
    /\ \E args \in Argvs, exists \in BOOLEAN :
        /\ argv' = args
        /\ is_file' = (Len(args) >= 2 /\ exists)
        /\ IF Len(args) < 2 \/ Len(args) > 3 THEN Exit(1)
           ELSE IF Len(args) = 3 /\ args[3] # "--run" THEN Exit(1)
           ELSE IF ~exists THEN Exit(1)
           ELSE /\ pc' = IF IsGuiXml(args[2]) THEN "expand" ELSE "graph"
                /\ exit_status' = exit_status
    /\ UNCHANGED stages
    /\ UNCHANGED <<builder_vars, graph_vars, codegen_vars, expander_vars>>

\* step 0: XMLTransformer(xml_path).save(complete_xml_path)
MainExpand == \E outcome \in {"returned", "raised"} : Stage("expand", outcome, "graph")

\* step 1: GraphBuilder(working_xml_path).build() and nx.write_graphml
MainBuildGraph == \E outcome \in {"returned", "raised"} : Stage("graph", outcome, "codegen")

\* step 2: CodeGenerator(graphml_path).generate() and the write of the file
MainGenerate ==
    \E outcome \in {"returned", "raised"} :
        Stage("codegen", outcome, IF Len(argv) = 3 /\ argv[3] = "--run" THEN "run" ELSE "end")

\* step 3: the generated file is run as a child process
MainRun ==
    /\ pc = "run"
    /\ \E child \in ChildRuns :
        /\ stages' = Append(stages, [stage |-> "run", outcome |-> child])
        /\ IF "raised" \in DOMAIN child THEN Exit(1)
           ELSE IF child.seconds > TimeoutSeconds THEN Exit(1)
           ELSE IF child.returncode = 0 THEN pc' = "end" /\ exit_status' = exit_status
           ELSE Exit(child.returncode)
    /\ UNCHANGED <<argv, is_file>>
    /\ UNCHANGED <<builder_vars, graph_vars, codegen_vars, expander_vars>>

\* main() returns
MainReturn ==
    /\ pc = "end"
    /\ Exit(0)
    /\ UNCHANGED <<argv, is_file, stages>>
    /\ UNCHANGED <<builder_vars, graph_vars, codegen_vars, expander_vars>>

DriverNext ==
    \/ MainArguments
    \/ MainExpand
    \/ MainBuildGraph
    \/ MainGenerate
    \/ MainRun
    \/ MainReturn

DriverSpec == Init /\ [][DriverNext]_vars

-----------------------------------------------------------------------------
\* the stages of a run in the order main() lists them
StageOrder(args) ==
    (IF IsGuiXml(args[2]) THEN <<"expand">> ELSE <<>>)
    \o <<"graph", "codegen">>
    \o (IF Len(args) = 3 /\ args[3] = "--run" THEN <<"run">> ELSE <<>>)

\* the stage ended without an exception, and for the child with returncode 0
\* inside the timeout
Succeeded(entry) ==
    IF entry.stage = "run"
    THEN /\ "raised" \notin DOMAIN entry.outcome
         /\ entry.outcome.seconds <= TimeoutSeconds
         /\ entry.outcome.returncode = 0
    ELSE entry.outcome = "returned"

\* C18: the stages started are a prefix of expansion (GUI XML only), graph
\* building, code generation, execution (--run only); a stage that fails is
\* the last one started and the driver has exited with a non-zero status.
C18_StagesInOrderAndStopOnFailure ==
    /\ stages # <<>> =>
           /\ Len(stages) <= Len(StageOrder(argv))
           /\ \A i \in DOMAIN stages : stages[i].stage = StageOrder(argv)[i]
    /\ \A i \in DOMAIN stages :
           ~Succeeded(stages[i]) =>
               /\ i = Len(stages)
               /\ pc = "exited"
               /\ exit_status # NoneV /\ exit_status # IntV(0)

\* a GUI file went through expansion and graph building, and code
\* generation failed: the child was never started although --run was given
C18_Witness ==
    /\ Len(argv) = 3 /\ IsGuiXml(argv[2])
    /\ Len(stages) = 3
    /\ stages[3] = [stage |-> "codegen", outcome |-> "raised"]
    /\ pc = "exited"

-----------------------------------------------------------------------------
\* the command line is refused: wrong number of arguments or an unknown flag
BadArguments == Len(argv) \notin {2, 3} \/ (Len(argv) = 3 /\ argv[3] # "--run")

\* the child was started and this is what it did
ChildRun == stages[Len(stages)].outcome
ChildStarted == stages # <<>> /\ stages[Len(stages)].stage = "run"

-----------------------------------------------------------------------------
(* GraphBuilder: expressions and the statements of a function body.  A      *)
(* handler of the model returns the builder and the node it made for the    *)
(* statement; an XML comment is an element with the tag "#comment".         *)

\* findtext(tag): the text of the first child with the tag, as one str
FindText(e, tag) == IF Find(e, tag) = NoneV THEN "" ELSE Glue(Find(e, tag).text)

\* _walk_call_chain for a call without method, function or argument children
WalkCallChain(g, e, p) ==
    LET call == NextId(g, "Call")
    IN  [g |-> Link(AddNode(g, "call", "Call", <<>>), p, call, "contains"), nid |-> call]

RECURSIVE WalkExpression(_, _, _)
RECURSIVE WalkOperands(_, _, _)

\* the loop of the generic expression: each child is walked under the
\* expression node and linked to it
WalkOperands(g, children, expr_node) ==
    IF children = <<>> THEN g
    ELSE IF Head(children).tag = "#comment" THEN WalkOperands(g, Tail(children), expr_node)
    ELSE LET walked == WalkExpression(g, Head(children), expr_node)
         IN  WalkOperands(Link(walked.g, expr_node, walked.nid, "contains"),
                          Tail(children), expr_node)

\* _walk_expression: var, const, call and the generic expression node
WalkExpression(g, e, p) ==
    IF e = NoneV THEN [g |-> g, nid |-> NoNode]
    ELSE IF e.tag = "var" /\ Glue(e.text) # ""
    THEN [g |-> AddNode(g, Glue(e.text), "VarRef", <<>>), nid |-> NextId(g, "VarRef")]
    ELSE IF e.tag = "const"
    THEN [g |-> AddNode(g, Glue(e.text), "ConstExpr", <<>>), nid |-> NextId(g, "ConstExpr")]
    ELSE IF e.tag = "call" THEN WalkCallChain(g, e, p)
    ELSE LET expr_node == NextId(g, "Expr")
         IN  [g |-> WalkOperands(AddNode(g, e.tag, "Expr", <<>>), e.children, expr_node),
              nid |-> expr_node]

\* _func_assign
FuncAssign(g, e, p) ==
    LET target == FindText(e, "target")
        walked == WalkExpression(g, Find(e, "source"), p)
        a == NextId(walked.g, "Assign")
        assigned == Link(Link(AddNode(walked.g, target \o "=...", "Assign", <<>>),
                              p, a, "contains"),
                         a, walked.nid, "source")
        v == NextId(assigned, "Variable")
        declared == Link(AddNode(assigned, target, "Variable", <<>>), a, v, "assigns")
        existing == Lookup(declared, target)
    IN  [g |-> IF existing # NoNode THEN Link(declared, v, existing, "refers_to")
               ELSE DeclareSymbol(Link(declared, v, v, "defines"), target, v),
         stmt |-> a]

\* _func_call: the call node is linked to the parent by _walk_call_chain and
\* once more by the handler
FuncCall(g, e, p) ==
    LET walked == WalkCallChain(g, e, p)
    IN  [g |-> Link(walked.g, p, walked.nid, "contains"), stmt |-> walked.nid]

\* _func_print for <string> and for the old format without variables
FuncPrint(g, e, p) ==
    LET pr == NextId(g, "Print")
        label == IF Find(e, "string") # NoneV /\ Find(e, "string").text # <<>>
                 THEN "print(" \o FindText(e, "string") \o ")"
                 ELSE "print(\"" \o FindText(e, "format") \o "\")"
    IN  [g |-> Link(AddNode(g, label, "Print", <<>>), p, pr, "contains"), stmt |-> pr]

\* _func_generic
FuncGeneric(g, e, p) ==
    LET nid == NextId(g, "FunctionBodyElement")
    IN  [g |-> Link(AddNode(g, e.tag, "FunctionBodyElement", <<>>), p, nid, "contains"),
         stmt |-> nid]

\* set(self.graph.out_edges(i))
OutEdges(g, i) == {k \in Keys(g.edges) : k[1] = i}

\* the relabelling had it been left out
RelabelNothing(g, i, edges_before, edge_type) == g

\* the edges out of the If node that are new since edges_before and typed
\* 'contains' get the type of the branch
Relabel(g, i, edges_before, edge_type) ==
    [g EXCEPT !.edges =
        [k \in DOMAIN @ |->
            IF /\ @[k][1] \in OutEdges(g, i) \ edges_before
               /\ @[k][2] = "contains"
            THEN <<@[k][1], edge_type>>
            ELSE @[k]]]

RECURSIVE ProcessFunctionBody(_, _, _)
RECURSIVE FuncFor(_, _, _)
RECURSIVE FuncIf(_, _, _)

\* the dispatch on the tag: getattr(self, f"_func_{tag.lower()}") or _func_generic;
\* the statements here are Assign, Call, Print, For, If and tags without a
\* handler (_func_assert and _func_comment link their node as _func_generic does)
Handle(g, c, p) ==
    CASE c.tag = "Assign" -> FuncAssign(g, c, p)
      [] c.tag = "Call" -> FuncCall(g, c, p)
      [] c.tag = "Print" -> FuncPrint(g, c, p)
      [] c.tag = "For" -> FuncFor(g, c, p)
      [] c.tag = "If" -> FuncIf(g, c, p)
      [] OTHER -> FuncGeneric(g, c, p)

\* _process_function_body, and the same loop inside _func_if: XML comments
\* are skipped, every other child is handled under p; stmts are the nodes
\* the handlers made, in order
ProcessFunctionBody(g, children, p) ==
    IF children = <<>> THEN [g |-> g, stmts |-> <<>>]
    ELSE IF Head(children).tag = "#comment" THEN ProcessFunctionBody(g, Tail(children), p)
    ELSE LET handled == Handle(g, Head(children), p)
             rest == ProcessFunctionBody(handled.g, Tail(children), p)
         IN  [stmts |-> <<handled.stmt>> \o rest.stmts, g |-> rest.g]

\* _func_for: the loop variable lives in a scope of its own
FuncFor(g, e, p) ==
    LET f == NextId(g, "For")
        looped == Link(AddNode(g, "for " \o Attr(e, "var", "") \o " in "
                                  \o Attr(e, "range", "range(...)"), "For", <<>>),
                       p, f, "contains")
        lv == NextId(looped, "LoopVariable")
        scoped == DeclareSymbol(
                      [Link(AddNode(looped, Attr(e, "var", ""), "LoopVariable", <<>>),
                            f, lv, "iterates")
                          EXCEPT !.scope_stack = Append(@, EmptyDict)],
                      Attr(e, "var", ""), lv)
        inner == ProcessFunctionBody(scoped, e.children, f).g
    IN  [g |-> [inner EXCEPT !.scope_stack = SubSeq(@, 1, Len(@) - 1)], stmt |-> f]

\* _func_if up to the branches: the condition node, the If node under p and
\* the condition edge
IfMade(g, e, p) ==
    LET cond_attr == Attr(e, "condition", "")
        cond == IF cond_attr # ""
                THEN [g |-> AddNode(g, cond_attr, "ConditionExpr", <<>>),
                      nid |-> NextId(g, "ConditionExpr")]
                ELSE WalkExpression(g, Find(e, "condition"), p)
        i == NextId(cond.g, "If")
    IN  [g |-> Link(Link(AddNode(cond.g, "if", "If", <<>>), p, i, "contains"),
                    i, cond.nid, "condition"),
         stmt |-> i]

\* the end of a branch: the new edges are relabelled; branches keeps the
\* nodes made for the statements of the branch
BranchDone(body, i, edges_before, tag) ==
    [g |-> [Relabel(body.g, i, edges_before, tag)
               EXCEPT !.branches = DictSet(@, <<i, tag>>, body.stmts)],
     stmt |-> i]

\* one branch of _func_if: the children of <then> or <else>, when the If
\* has one, are handled under the If node
IfBranch(made, e, tag) ==
    IF Find(e, tag) = NoneV THEN made
    ELSE BranchDone(ProcessFunctionBody(made.g, Find(e, tag).children, made.stmt),
                    made.stmt, OutEdges(made.g, made.stmt), tag)

\* _func_if
FuncIf(g, e, p) == IfBranch(IfBranch(IfMade(g, e, p), e, "then"), e, "else")

-----------------------------------------------------------------------------
(* The graph of one function: its body is processed statement by statement. *)

\* most statements in the function body itself
MaxStatements == 2

AssignElem(target, source) ==
    Element("Assign", <<>>, <<>>,
            << Element("target", <<>>, <<target>>, <<>>),
               Element("source", <<>>, <<>>, <<source>>) >>)
CallElem == Element("Call", <<>>, <<>>, <<>>)
PrintElem == Element("Print", <<>>, <<>>, <<Element("string", <<>>, <<"'hi'">>, <<>>)>>)
PassElem == Element("Pass", <<>>, <<>>, <<>>)
XmlComment == Element("#comment", <<>>, <<"note">>, <<>>)
ForElem(var, children) == Element("For", << <<"var", var>>, <<"range", "range(4)">> >>, <<>>,
                                  children)
\* <If condition="..."> or <If><condition>...</condition>, with <then> and,
\* when else_blocks holds a block, <else>
IfElem(cond, then_block, else_blocks) ==
    Element("If", IF cond.tag = "attribute" THEN <<<<"condition", Glue(cond.text)>>>> ELSE <<>>,
            <<>>,
            (IF cond.tag = "attribute" THEN <<>> ELSE <<cond>>)
            \o <<Element("then", <<>>, <<>>, then_block)>>
            \o [k \in DOMAIN else_blocks |-> Element("else", <<>>, <<>>, else_blocks[k])])

Conditions ==
    { Element("attribute", <<>>, <<"x > 0">>, <<>>),
      Element("condition", <<>>, <<>>, <<Element("call", <<>>, <<>>, <<>>)>>) }

\* the blocks a branch of an If of the function body can hold
Blocks ==
    { <<>>,
      <<AssignElem("x", Element("const", <<>>, <<"1">>, <<>>))>>,
      <<XmlComment, CallElem,
        IfElem(Element("attribute", <<>>, <<"y">>, <<>>), <<PrintElem>>,
               <<<<AssignElem("x", Element("call", <<>>, <<>>, <<>>))>>>>)>>,
      <<ForElem("i", <<IfElem(Element("attribute", <<>>, <<"i">>, <<>>), <<CallElem>>, <<>>)>>),
        PassElem>> }

\* one more statement of the function body is handled under the Function node
FuncStatement(c) ==
    /\ Len(fn_body) < MaxStatements
    /\ gb' = Handle(gb, c, <<"Function", 2>>).g
    /\ fn_body' = Append(fn_body, c)
    /\ UNCHANGED <<builder_vars, driver_vars, codegen_vars, expander_vars>>

DoFuncAssign ==
    \E source \in {Element("const", <<>>, <<"1">>, <<>>), Element("var", <<>>, <<"x">>, <<>>)} :
        FuncStatement(AssignElem("x", source))
DoFuncCall == FuncStatement(CallElem)
DoFuncPrint == FuncStatement(PrintElem)
DoFuncGeneric == FuncStatement(PassElem)
DoFuncFor == \E children \in {<<>>, <<CallElem>>} : FuncStatement(ForElem("i", children))
DoFuncIf ==
    \E cond \in Conditions, then_block \in Blocks,
       else_blocks \in {<<>>} \cup {<<else_block>> : else_block \in Blocks} :
        FuncStatement(IfElem(cond, then_block, else_blocks))

GraphNext ==
    \/ DoFuncAssign
    \/ DoFuncCall
    \/ DoFuncPrint
    \/ DoFuncGeneric
    \/ DoFuncFor
    \/ DoFuncIf

GraphSpec == Init /\ [][GraphNext]_vars

-----------------------------------------------------------------------------
\* the type of the edge, or "" when there is none
EdgeType(src, dst) == DictGet(gb.edges, <<src, dst>>, "")

IfNodes == {n \in Keys(gb.nodes) : At(gb.nodes, n).kind = "If"}

\* the nodes made for the statements of a branch of the If node
BranchNodes(n, tag) == DictGet(gb.branches, <<n, tag>>, <<>>)

\* C20: every then or else edge leaves an If node; every node made for a
\* statement of an If's then block hangs on that If by a then edge, every
\* node made for a statement of its else block by an else edge, so none of
\* them is left on a contains edge.
C20_BranchEdgesAreRelabelled ==
    /\ \A k \in Keys(gb.edges) :
           At(gb.edges, k) \in {"then", "else"} => k[1] \in IfNodes
    /\ \A n \in IfNodes, tag \in {"then", "else"} :
           \A j \in DOMAIN BranchNodes(n, tag) :
               EdgeType(n, BranchNodes(n, tag)[j]) = tag

\* an If with statements in both branches, one of them an If of its own
\* with statements in both branches, has been processed
C20_Witness ==
    \E n \in IfNodes, m \in IfNodes :
        /\ n # m
        /\ BranchNodes(n, "else") # <<>>
        /\ \E j \in DOMAIN BranchNodes(n, "then") : BranchNodes(n, "then")[j] = m
        /\ BranchNodes(m, "then") # <<>> /\ BranchNodes(m, "else") # <<>>

-----------------------------------------------------------------------------
(* Method chains of a Worker's arguments                                    *)
(* (src/src/aiecad_compiler/extension/GraphExtender.py).                    *)

\* most <Worker> elements processed in one run
MaxWorkerElements == 2

\* WorkerExtension._walk_expression for <var> and <const>, the expressions
\* the bases here hold; None is NoNode
ExtWalkExpression(g, elem, parent_nid) ==
    IF elem = NoneV THEN [nid |-> NoNode, g |-> g]
    ELSE IF elem.tag = "var"
    THEN LET ref == IF Attr(elem, "ref", "") # "" THEN Attr(elem, "ref", "")
                    ELSE Glue(elem.text)
         IN  IF ref = "" THEN [nid |-> NoNode, g |-> g]
             ELSE IF Lookup(g, ref) # NoNode
             THEN [nid |-> Lookup(g, ref), g |-> Link(g, parent_nid, Lookup(g, ref), "uses")]
             ELSE [nid |-> NextId(g, "VarRef"),
                   g |-> Link(AddNode(g, ref, "VarRef", <<>>),
                              parent_nid, NextId(g, "VarRef"), "uses")]
    ELSE [nid |-> NextId(g, "ConstExpr"),
          g |-> AddNode(g, IF elem.text = <<>> THEN "0" ELSE Glue(elem.text),
                        "ConstExpr", <<>>)]

\* the kwargs of one method of a chain that carry a value attribute
RECURSIVE ChainKwargs(_, _, _)
ChainKwargs(g, children, method_nid) ==
    IF children = <<>> THEN g
    ELSE IF Head(children).tag = "kwarg" /\ Attr(Head(children), "value", "") # ""
    THEN ChainKwargs(Link(AddNode(g, Attr(Head(children), "name", "") \o "="
                                     \o Attr(Head(children), "value", ""), "Kwarg", <<>>),
                          method_nid, NextId(g, "Kwarg"), "has_kwarg"),
                     Tail(children), method_nid)
    ELSE ChainKwargs(g, Tail(children), method_nid)

\* one named method of the chain: its node, the calls edge from the node
\* before it and the has_call edge from the chain node
ChainMethod(g, method_elem, chain_nid, prev_nid) ==
    ChainKwargs(Link(Link(AddNode(g, Attr(method_elem, "name", ""), "MethodCall", <<>>),
                          prev_nid, NextId(g, "MethodCall"), "calls"),
                     chain_nid, NextId(g, "MethodCall"), "has_call"),
                method_elem.children, NextId(g, "MethodCall"))

\* the loop over elem.findall("call"): a call without a named <method> is
\* passed over
RECURSIVE ChainCalls(_, _, _, _)
ChainCalls(g, calls, chain_nid, prev_nid) ==
    IF calls = <<>> THEN g
    ELSE IF Find(Head(calls), "method") # NoneV
            /\ Attr(Find(Head(calls), "method"), "name", "") # ""
    THEN ChainCalls(ChainMethod(g, Find(Head(calls), "method"), chain_nid, prev_nid),
                    Tail(calls), chain_nid, NextId(g, "MethodCall"))
    ELSE ChainCalls(g, Tail(calls), chain_nid, prev_nid)

\* the base linked, then the calls
ChainFrom(based, elem, chain_nid) ==
    IF based.nid = NoNode THEN [nid |-> NoNode, g |-> based.g]
    ELSE [nid |-> chain_nid,
          g |-> ChainCalls(Link(based.g, chain_nid, based.nid, "base"),
                           FindAll(elem, "call"), chain_nid, based.nid)]

\* the base of the new format: the first child of <base>, walked under the
\* parent or, without one, under an id drawn with _new_id("temp")
ChainBase(g, elem, parent_nid) ==
    IF Find(elem, "base").children = <<>> THEN [nid |-> NoNode, g |-> g]
    ELSE IF parent_nid # NoNode
    THEN ExtWalkExpression(g, Find(elem, "base").children[1], parent_nid)
    ELSE ExtWalkExpression([g EXCEPT !.counter = @ + 1], Find(elem, "base").children[1],
                           NextId(g, "temp"))

\* the base of the old format: the ref of the first call's method, looked
\* up or made a VarRef
ChainOldBase(g, elem) ==
    IF \/ Find(elem, "call") = NoneV
       \/ Find(Find(elem, "call"), "method") = NoneV
       \/ Attr(Find(Find(elem, "call"), "method"), "ref", "") = ""
    THEN [nid |-> NoNode, g |-> g]
    ELSE IF Lookup(g, Attr(Find(Find(elem, "call"), "method"), "ref", "")) # NoNode
    THEN [nid |-> Lookup(g, Attr(Find(Find(elem, "call"), "method"), "ref", "")), g |-> g]
    ELSE [nid |-> NextId(g, "VarRef"),
          g |-> AddNode(g, Attr(Find(Find(elem, "call"), "method"), "ref", ""),
                        "VarRef", <<>>)]

\* the MethodChain node, made before anything of the element is read
ChainNode(g, elem) ==
    [AddNode(g, "method_chain", "MethodChain", <<>>)
        EXCEPT !.chains = DictSet(@, NextId(g, "MethodChain"), elem)]

\* WorkerExtension._walk_method_chain
ExtWalkMethodChain(g, elem, parent_nid) ==
    ChainFrom(IF Find(elem, "base") # NoneV
              THEN ChainBase(ChainNode(g, elem), elem, parent_nid)
              ELSE ChainOldBase(ChainNode(g, elem), elem),
              elem, NextId(g, "MethodChain"))

\* an argument walked: the has_arg edge from the worker when it gave a node
ArgLinked(walked, worker_nid) == Link(walked.g, worker_nid, walked.nid, "has_arg")

\* the loop over <fn_args>: an <arg> with a <method_chain> gives a chain,
\* any other <arg> its first child as an expression
RECURSIVE WorkerArgs(_, _, _)
WorkerArgs(g, args, worker_nid) ==
    IF args = <<>> THEN g
    ELSE IF Head(args).tag # "arg" THEN WorkerArgs(g, Tail(args), worker_nid)
    ELSE IF Find(Head(args), "method_chain") # NoneV
    THEN WorkerArgs(ArgLinked(ExtWalkMethodChain(g, Find(Head(args), "method_chain"), NoNode),
                              worker_nid),
                    Tail(args), worker_nid)
    ELSE IF Head(args).children # <<>>
    THEN WorkerArgs(ArgLinked(ExtWalkExpression(g, Head(args).children[1], worker_nid),
                              worker_nid),
                    Tail(args), worker_nid)
    ELSE WorkerArgs(g, Tail(args), worker_nid)

\* WorkerExtension.process for a named <Worker> without <core_fn> and
\* <placement>
ProcessWorker(g, elem, parent_nid) ==
    WorkerArgs(DeclareSymbol(Link(AddNode(g, Attr(elem, "name", ""), "Worker", <<>>),
                                  parent_nid, NextId(g, "Worker"), "contains"),
                             Attr(elem, "name", ""), NextId(g, "Worker")),
               IF Find(elem, "fn_args") = NoneV THEN <<>> ELSE Find(elem, "fn_args").children,
               NextId(g, "Worker"))

VarElem(name) == Element("var", <<>>, IF name = "" THEN <<>> ELSE <<name>>, <<>>)
MethodElem(attrib) == Element("call", <<>>, <<>>, <<Element("method", attrib, <<>>, <<>>)>>)
KwargMethodElem ==
    Element("call", <<>>, <<>>,
            <<Element("method", << <<"name", "split">> >>, <<>>,
                      <<Element("kwarg", << <<"name", "n">>, <<"value", "2">> >>, <<>>, <<>>)>>)>>)
BaseElem(children) == Element("base", <<>>, <<>>, children)
MethodChainElem(children) == Element("method_chain", <<>>, <<>>, children)

\* the <method_chain> elements of the model: both formats, whole and not
MethodChains ==
    { MethodChainElem(<<BaseElem(<<VarElem("a")>>), MethodElem(<< <<"name", "cons">> >>)>>),
      MethodChainElem(<<BaseElem(<<VarElem("w1")>>), MethodElem(<< <<"name", "cons">> >>),
                        Element("call", <<>>, <<>>, <<>>), KwargMethodElem>>),
      MethodChainElem(<<BaseElem(<<Element("const", <<>>, <<"1">>, <<>>)>>),
                        KwargMethodElem, MethodElem(<< <<"name", "prod">> >>)>>),
      MethodChainElem(<<BaseElem(<<>>), MethodElem(<< <<"name", "cons">> >>)>>),
      MethodChainElem(<<BaseElem(<<VarElem("")>>), MethodElem(<< <<"name", "cons">> >>)>>),
      MethodChainElem(<<BaseElem(<<VarElem("a")>>)>>),
      MethodChainElem(<<BaseElem(<<VarElem("a")>>), MethodElem(<<>>)>>),
      MethodChainElem(<<MethodElem(<< <<"ref", "w1">>, <<"name", "cons">> >>),
                        MethodElem(<< <<"name", "prod">> >>)>>),
      MethodChainElem(<<MethodElem(<< <<"name", "cons">> >>)>>),
      MethodChainElem(<<>>) }

ArgElem(children) == Element("arg", <<>>, <<>>, children)
WorkerElem(name, args) ==
    Element("Worker", << <<"name", name>> >>, <<>>, <<Element("fn_args", <<>>, <<>>, args)>>)

WorkerNodes(g) == {n \in Keys(g.nodes) : At(g.nodes, n).kind = "Worker"}

\* one more <Worker> of the DataFlow section is processed
DoProcessWorker ==
    /\ Cardinality(WorkerNodes(gb)) < MaxWorkerElements
    /\ \E name \in {"w1", "w2"}, chain \in MethodChains,
          more \in {<<>>, <<ArgElem(<<VarElem("a")>>)>>} :
           gb' = ProcessWorker(gb, WorkerElem(name, <<ArgElem(<<chain>>)>> \o more),
                               <<"Module", 1>>)
    /\ UNCHANGED <<builder_vars, driver_vars, fn_body, codegen_vars, expander_vars>>

ChainNext == DoProcessWorker

ChainSpec == Init /\ [][ChainNext]_vars

\* the targets of the edges of one type out of a node, in insertion order:
\* what _get_children(node_id, edge_type) returns
GetChildren(g, node_id, edge_type) ==
    LET out == SelectSeq(g.edges, LAMBDA ed : ed[1][1] = node_id /\ ed[2] = edge_type)
    IN  [k \in DOMAIN out |-> out[k][1][2]]

MethodChainNodes == {n \in Keys(gb.nodes) : At(gb.nodes, n).kind = "MethodChain"}

\* the names of the named methods of the <call> children, in document order
CallNames(elem) ==
    LET named == SelectSeq(FindAll(elem, "call"),
                           LAMBDA c : /\ Find(c, "method") # NoneV
                                      /\ Attr(Find(c, "method"), "name", "") # "")
    IN  [k \in DOMAIN named |-> Attr(Find(named[k], "method"), "name", "")]

\* the labels of the has_call children of a chain node, in the order the
\* generator reads them
HasCallLabels(n) ==
    LET calls == GetChildren(gb, n, "has_call")
    IN  [k \in DOMAIN calls |-> At(gb.nodes, calls[k]).label]

\* C21: every MethodChain node of the graph has exactly one base edge and at
\* least one has_call edge, and its has_call edges are in the order of the
\* <call> children of its element.
C21_MethodChainShape ==
    \A n \in MethodChainNodes :
        /\ Len(GetChildren(gb, n, "base")) = 1
        /\ Len(GetChildren(gb, n, "has_call")) >= 1
        /\ HasCallLabels(n) = CallNames(At(gb.chains, n))

-----------------------------------------------------------------------------
(* The code generator (src/src/aiecad_compiler/codegen/backends/            *)
(* CodeGenerator.py).  A graph is read as the graph builder writes it:      *)
(* nodes with label and kind, typed edges in insertion order.               *)

\* most generate() runs on one CodeGenerator
MaxGenerateRuns == 2

\* CodeGenerator.__init__
CodeGenerator(graph) ==
    [graph |-> graph, code_lines |-> <<>>, indent_level |-> 0, dataflow_generated |-> FALSE,
     runs |-> <<>>]

\* _indent: four spaces per level
RECURSIVE Indent(_)
Indent(level) == IF level <= 0 THEN "" ELSE "    " \o Indent(level - 1)

\* _emit
Emit(cg, line) ==
    [cg EXCEPT !.code_lines =
        Append(@, IF line # "" THEN Indent(cg.indent_level) \o line ELSE "")]

\* _emit for each line in turn
RECURSIVE EmitEach(_, _)
EmitEach(cg, lines) ==
    IF lines = <<>> THEN cg ELSE EmitEach(Emit(cg, Head(lines)), Tail(lines))

\* _find_nodes_by_kind
FindNodesByKind(graph, kind) ==
    LET found == SelectSeq(graph.nodes, LAMBDA nd : nd[2].kind = kind)
    IN  [k \in DOMAIN found |-> found[k][1]]

\* the Section children of the first Module node with the label
Sections(graph, label) ==
    IF FindNodesByKind(graph, "Module") = <<>> THEN <<>>
    ELSE SelectSeq(GetChildren(graph, FindNodesByKind(graph, "Module")[1], "contains"),
                   LAMBDA c : /\ At(graph.nodes, c).kind = "Section"
                              /\ At(graph.nodes, c).label = label)

\* the children of a node with a kind
ChildrenOfKind(graph, node_id, kind) ==
    SelectSeq(GetChildren(graph, node_id, "contains"),
              LAMBDA c : At(graph.nodes, c).kind = kind)

\* the first line of the DataFlow block
DataFlowHeader == "# Data movement with ObjectFifos"

\* the lines "<name> = Runtime()" of the Runtime nodes
RuntimeLines(graph, dataflow_id) ==
    LET rts == ChildrenOfKind(graph, dataflow_id, "Runtime")
    IN  [k \in DOMAIN rts |-> At(graph.nodes, rts[k]).label \o " = Runtime()"]

\* _generate_dataflow_usage for a DataFlow section that holds Runtime nodes
\* alone
GenerateDataflowUsage(cg, use_symbol_id) ==
    IF Sections(cg.graph, "DataFlow") = <<>> THEN cg
    ELSE EmitEach(cg,
             <<DataFlowHeader, "",
               "# Runtime operations to move data to/from the AIE-array">>
             \o RuntimeLines(cg.graph, Sections(cg.graph, "DataFlow")[1])
             \o <<"# Create the program from the current device and runtime", "",
                  "# Place components and resolve program (generate MLIR + compile)">>)

\* _generate_type_definitions for a Symbols section without TypeAbstraction
GenerateTypeDefinitions(cg, use_type_id) ==
    IF Sections(cg.graph, "Symbols") = <<>> THEN cg
    ELSE EmitEach(cg, <<"# Define tensor types", "">>)

\* _generate_return for a DataFlow section without ResolveProgram
GenerateReturn(cg, return_id) == Emit(cg, "return")

\* the flag once the block was asked for
DataflowDone(cg) == [cg EXCEPT !.dataflow_generated = TRUE]

\* _process_function_body_element
ProcessFunctionBodyElement(cg, elem_id) ==
    CASE At(cg.graph.nodes, elem_id).label = "UseType" ->
             GenerateTypeDefinitions(cg, elem_id)
      [] At(cg.graph.nodes, elem_id).label = "UseSymbol" ->
             IF ~cg.dataflow_generated
             THEN DataflowDone(GenerateDataflowUsage(cg, elem_id))
             ELSE cg
      [] At(cg.graph.nodes, elem_id).label = "UseDataFlow" ->
             IF ~cg.dataflow_generated
             THEN DataflowDone(GenerateDataflowUsage(GenerateTypeDefinitions(cg, elem_id),
                                                     elem_id))
             ELSE cg
      [] At(cg.graph.nodes, elem_id).label = "Return" -> GenerateReturn(cg, elem_id)
      [] OTHER -> cg

\* self.indent_level += n
Indented(cg, n) == [cg EXCEPT !.indent_level = @ + n]

RECURSIVE ProcessStatements(_, _)
RECURSIVE ProcessIf(_, _)

\* _process_statement for the kinds FunctionBodyElement and If
ProcessStatement(cg, stmt_id) ==
    CASE At(cg.graph.nodes, stmt_id).kind = "FunctionBodyElement" ->
             ProcessFunctionBodyElement(cg, stmt_id)
      [] At(cg.graph.nodes, stmt_id).kind = "If" -> ProcessIf(cg, stmt_id)
      [] OTHER -> cg

\* for child_id in children: self._process_statement(child_id)
ProcessStatements(cg, children) ==
    IF children = <<>> THEN cg
    ELSE ProcessStatements(ProcessStatement(cg, Head(children)), Tail(children))

\* the else branch of _process_if
ProcessElse(cg, else_children) ==
    IF else_children = <<>> THEN cg
    ELSE Indented(ProcessStatements(Indented(Emit(cg, "else:"), 1), else_children), -1)

\* _process_if for an If node without condition text and condition node
ProcessIf(cg, if_id) ==
    ProcessElse(Indented(ProcessStatements(Indented(Emit(cg, "if condition:"), 1),
                                           GetChildren(cg.graph, if_id, "then")), -1),
                GetChildren(cg.graph, if_id, "else"))

\* the body of a function: pass when it is empty
FunctionBody(cg, body_children) ==
    IF body_children = <<>> THEN Emit(cg, "pass") ELSE ProcessStatements(cg, body_children)

\* _process_function for a function without decorator and parameters
ProcessFunction(cg, func_id) ==
    EmitEach(Indented(FunctionBody(Indented(Emit(cg, "def " \o At(cg.graph.nodes, func_id).label
                                                     \o "():"), 1),
                                   GetChildren(cg.graph, func_id, "contains")), -1),
             <<"", "">>)

\* _process_symbols_section for a section without Import nodes
ProcessSymbolsSection(cg, section_id) == EmitEach(cg, <<"", "">>)

\* the loop of generate() over the children of the module
RECURSIVE ProcessModuleChildren(_, _)
ProcessModuleChildren(cg, children) ==
    IF children = <<>> THEN cg
    ELSE ProcessModuleChildren(
             CASE /\ At(cg.graph.nodes, Head(children)).kind = "Section"
                  /\ At(cg.graph.nodes, Head(children)).label = "Symbols" ->
                      ProcessSymbolsSection(cg, Head(children))
               [] At(cg.graph.nodes, Head(children)).kind = "Function" ->
                      ProcessFunction(cg, Head(children))
               [] OTHER -> cg,
             Tail(children))

\* "\n".join(lines)
RECURSIVE JoinLines(_)
JoinLines(lines) ==
    IF lines = <<>> THEN ""
    ELSE IF Len(lines) = 1 THEN lines[1]
    ELSE lines[1] \o "\n" \o JoinLines(Tail(lines))

\* generate() but for its return: the header, then the children of the
\* first Module node
Generated(cg) ==
    ProcessModuleChildren(
        EmitEach(cg, <<"# " \o At(cg.graph.nodes, FindNodesByKind(cg.graph, "Module")[1]).label
                       \o ".py -*- Python -*-", "", "">>),
        GetChildren(cg.graph, FindNodesByKind(cg.graph, "Module")[1], "contains"))

\* the lines a run added that open a DataFlow block
BlocksEmitted(before, after) ==
    Cardinality({k \in (Len(before.code_lines) + 1)..Len(after.code_lines) :
                    \E level \in 0..3 :
                        after.code_lines[k] = Indent(level) \o DataFlowHeader})

\* the run noted: what generate() returned and how many DataFlow blocks the
\* run emitted
RunNoted(before, after) ==
    [after EXCEPT !.runs = Append(@, [result |-> JoinLines(after.code_lines),
                                      blocks |-> BlocksEmitted(before, after)])]

\* the generator state after generate()
Generate(cg) == RunNoted(cg, Generated(cg))

\* a body statement of a graph: a function body element, or an If with
\* function body elements in its then branch
BodyElement(label) == [kind |-> "FunctionBodyElement", label |-> label, body |-> <<>>]
IfStatement(body) == [kind |-> "If", label |-> "if", body |-> body]

\* the statements hung on their parent, each with the edge type given
RECURSIVE WithStatements(_, _, _, _)
WithStatements(g, parent, stmts, edge_type) ==
    IF stmts = <<>> THEN g
    ELSE WithStatements(
             WithStatements(Link(AddNode(g, Head(stmts).label, Head(stmts).kind, <<>>),
                                 parent, NextId(g, Head(stmts).kind), edge_type),
                            NextId(g, Head(stmts).kind), Head(stmts).body, "then"),
             parent, Tail(stmts), edge_type)

\* the functions hung on the module
RECURSIVE WithFunctions(_, _)
WithFunctions(g, bodies) ==
    IF bodies = <<>> THEN g
    ELSE WithFunctions(
             WithStatements(Link(AddNode(g, "f" \o ToString(Len(bodies)), "Function", <<>>),
                                 <<"Module", 1>>, NextId(g, "Function"), "contains"),
                            NextId(g, "Function"), Head(bodies), "contains"),
             Tail(bodies))

\* a section hung on the module
WithSection(g, label) ==
    Link(AddNode(g, label, "Section", <<>>), <<"Module", 1>>, NextId(g, "Section"), "contains")

\* a Runtime node hung on the section made last
WithRuntime(g) ==
    Link(AddNode(g, "rt", "Runtime", <<>>), <<"Section", g.counter>>,
         NextId(g, "Runtime"), "contains")

\* the graph of a module: its Symbols section, its functions, its DataFlow
\* section
GraphOf(symbols, bodies, dataflow) ==
    LET module == AddNode(NewGraphBuilder, "m", "Module", <<>>)
        headed == IF symbols THEN WithSection(module, "Symbols") ELSE module
        filled == WithFunctions(headed, bodies)
    IN  CASE dataflow = "none" -> filled
          [] dataflow = "empty" -> WithSection(filled, "DataFlow")
          [] OTHER -> WithRuntime(WithSection(filled, "DataFlow"))

\* the function bodies of the model
Bodies ==
    { <<>>,
      <<BodyElement("UseSymbol")>>,
      <<BodyElement("UseDataFlow"), BodyElement("UseSymbol")>>,
      <<IfStatement(<<BodyElement("UseSymbol")>>), BodyElement("UseSymbol"),
        BodyElement("Return")>>,
      <<BodyElement("Pass")>>,
      <<BodyElement("UseType"), BodyElement("UseDataFlow")>> }

\* a CodeGenerator is constructed on a graph
DoNewCodeGenerator ==
    /\ gen = NoneV
    /\ xt = NewXMLTransformer
    /\ \E symbols \in BOOLEAN, dataflow \in {"none", "empty", "runtime"},
          bodies \in {<<body>> : body \in Bodies}
                     \cup {<<body, other>> : body \in Bodies, other \in Bodies} :
           gen' = CodeGenerator(GraphOf(symbols, bodies, dataflow))
    /\ UNCHANGED <<builder_vars, driver_vars, graph_vars, expander_vars>>

\* generate() is run on it
DoGenerate ==
    /\ gen # NoneV
    /\ Len(gen.runs) < MaxGenerateRuns
    /\ gen' = Generate(gen)
    /\ UNCHANGED <<builder_vars, driver_vars, graph_vars, expander_vars>>

CodegenNext ==
    \/ DoNewCodeGenerator
    \/ DoGenerate

CodegenSpec == Init /\ [][CodegenNext]_vars

\* C22: every generate() run on the same graph returns the same source,
\* whatever runs came before it.
C22_GenerateIsRepeatable ==
    gen # NoneV =>
        \A i \in DOMAIN gen.runs, j \in DOMAIN gen.runs :
            gen.runs[i].result = gen.runs[j].result

\* the graph has a DataFlow section and a UseSymbol or UseDataFlow element
HasDataFlowUse(graph) ==
    /\ Sections(graph, "DataFlow") # <<>>
    /\ \E n \in Keys(graph.nodes) :
           /\ At(graph.nodes, n).kind = "FunctionBodyElement"
           /\ At(graph.nodes, n).label \in {"UseSymbol", "UseDataFlow"}

\* C29: on a graph with a DataFlow section and at least one UseSymbol or
\* UseDataFlow body element, each run of the generator emits the DataFlow
\* block exactly once.
C29_DataFlowEmittedOnce ==
    (gen # NoneV /\ HasDataFlowUse(gen.graph)) =>
        \A k \in DOMAIN gen.runs : gen.runs[k].blocks = 1

-----------------------------------------------------------------------------
(* The expander's Symbols and DataFlow sections                             *)
(* (src/src/aiecad_compiler/graph_builder/XMLGenerator.py).  A shape text   *)
(* is the sequence of its operands and "/" pieces.                          *)

\* most elements of the authoring XML transformed in one run
MaxExpanderElements == 3

\* text.split(sep), each part glued and stripped
RECURSIVE SplitOn(_, _)
SplitOn(text, sep) ==
    IF \E i \in DOMAIN text : text[i] = sep
    THEN <<Glue(SubSeq(text, 1, (CHOOSE i \in DOMAIN text :
                                     text[i] = sep /\ \A j \in 1..(i - 1) : text[j] # sep) - 1))>>
         \o SplitOn(SubSeq(text, (CHOOSE i \in DOMAIN text :
                                      text[i] = sep /\ \A j \in 1..(i - 1) : text[j] # sep) + 1,
                           Len(text)), sep)
    ELSE <<Glue(text)>>

\* next(iter(tensor_refs.values())) if tensor_refs else "input"
FirstTensorRef(t) == IF t.tensor_refs = <<>> THEN "input" ELSE t.tensor_refs[1][2]

\* the <expr> of a shape: a "/" anywhere in the text gives numel() // the
\* second part of the split, any other text numel() alone
ShapeExpr(t, shape_text) ==
    Element("expr", <<>>, <<>>,
        IF \E i \in DOMAIN shape_text : shape_text[i] = "/"
        THEN <<Element("binary_op", << <<"op", "//">> >>, <<>>,
                       << Element("method", << <<"ref", FirstTensorRef(t)>>,
                                               <<"name", "numel">> >>, <<>>, <<>>),
                          Element("const", <<>>, <<SplitOn(shape_text, "/")[2]>>, <<>>) >>)>>
        ELSE <<Element("method", << <<"ref", FirstTensorRef(t)>>, <<"name", "numel">> >>,
                       <<>>, <<>>)>>)

\* the <ndarray> written for the <ndarray> of the authoring element
NdarrayOut(t, ndarray) ==
    Element("ndarray", <<>>, <<>>,
        (IF Find(ndarray, "shape") = NoneV THEN <<>>
         ELSE <<Element("shape", <<>>, <<>>,
                   <<Element("tuple", <<>>, <<>>,
                        <<ShapeExpr(t, Find(ndarray, "shape").text)>>)>>)>>)
        \o (IF Find(ndarray, "dtype") = NoneV THEN <<>>
            ELSE <<Element("dtype", <<>>, <<>>,
                      <<Element("numpy_dtype", <<>>,
                                IF Find(ndarray, "dtype").text = <<>> THEN <<"bfloat16">>
                                ELSE Find(ndarray, "dtype").text, <<>>)>>)>>))

\* the element transformed joins the log with what was written for it
Logged(t, simple, out) == [t EXCEPT !.log = Append(@, [simple |-> simple, out |-> out])]

\* _transform_type_abstraction
TransformTypeAbstraction(t, simple_type) ==
    LET out == Element("TypeAbstraction", << <<"name", Attr(simple_type, "name", "")>> >>, <<>>,
                       IF Find(simple_type, "ndarray") = NoneV THEN <<>>
                       ELSE <<NdarrayOut(t, Find(simple_type, "ndarray"))>>)
    IN  Logged([t EXCEPT !.symbols_section = Append(@, out)], simple_type, out)

\* _transform_objectfifo for an ObjectFifo with a <type>, without context,
\* data and <depth>: the simple name is the expanded name
TransformObjectFifo(t, simple_of) ==
    LET name == Attr(simple_of, "name", "")
        out == Element("ObjectFifo", << <<"name", name>> >>, <<>>,
                   << Element("obj_type", <<>>, <<>>,
                          <<Element("type_ref", <<>>, Find(simple_of, "type").text, <<>>)>>),
                      Element("attributes", <<>>, <<>>,
                          <<Element("kwarg", << <<"name", "name">>, <<"value", name>> >>,
                                    <<>>, <<>>)>>) >>)
    IN  Logged([t EXCEPT !.objectfifo_names = DictSet(@, name, name),
                         !.dataflow_section = Append(@, out)], simple_of, out)

\* _transform_forward: source.cons().forward(); the source is the expanded
\* name of a known FIFO or, of an unknown one, the name as given
TransformForward(t, simple_forward) ==
    LET simple_name == Attr(simple_forward, "name", "")
        source_name == Attr(simple_forward, "source", "")
        expanded_source == DictGet(t.objectfifo_names, source_name, source_name)
        out == Element("ObjectFifo", << <<"name", simple_name>> >>, <<>>,
                   <<Element("source", <<>>, <<>>,
                        <<Element("method_chain", <<>>, <<>>,
                             << Element("base", <<>>, <<>>,
                                    <<Element("var", << <<"ref", expanded_source>> >>,
                                              <<>>, <<>>)>>),
                                Element("call", <<>>, <<>>,
                                    <<Element("method", << <<"name", "cons">> >>, <<>>, <<>>)>>),
                                Element("call", <<>>, <<>>,
                                    <<Element("method", << <<"name", "forward">> >>,
                                              <<>>, <<>>)>>) >>)>>)>>)
    IN  Logged([t EXCEPT !.objectfifo_names = DictSet(@, simple_name, simple_name),
                         !.dataflow_section = Append(@, out)], simple_forward, out)

\* the shape texts of the model: none, one operand, one division, two
\* divisions
ShapeTexts ==
    { <<>>, <<"N">>, <<"N", "/", "4">>, <<"N", "/", "4", "/", "2">>, <<"N", "/", "2", "/", "2">> }

TypeAbstractionElem(name, shape_text) ==
    Element("TypeAbstraction", << <<"name", name>> >>, <<>>,
            <<Element("ndarray", <<>>, <<>>,
                  << Element("shape", <<>>, shape_text, <<>>),
                     Element("dtype", <<>>, <<"int32">>, <<>>) >>)>>)

ObjectFifoElem(name) ==
    Element("ObjectFifo", << <<"name", name>> >>, <<>>, <<Element("type", <<>>, <<"ty">>, <<>>)>>)

ObjectFifoForwardElem(name, source) ==
    Element("ObjectFifoForward", << <<"name", name>>, <<"source", source>> >>, <<>>, <<>>)

\* _transform_symbols: the next <TypeAbstraction> of <Symbols>; the Symbols
\* section is written before the DataFlow section
DoTransformTypeAbstraction ==
    /\ Len(xt.log) < MaxExpanderElements
    /\ xt.dataflow_section = <<>>
    /\ \E shape_text \in ShapeTexts :
           xt' = TransformTypeAbstraction(xt, TypeAbstractionElem("line_ty", shape_text))
    /\ UNCHANGED <<builder_vars, driver_vars, graph_vars, codegen_vars>>

\* _transform_dataflow: the next child is an <ObjectFifo>
DoTransformObjectFifo ==
    /\ Len(xt.log) < MaxExpanderElements
    /\ \E name \in {"of_a", "of_b"} : xt' = TransformObjectFifo(xt, ObjectFifoElem(name))
    /\ UNCHANGED <<builder_vars, driver_vars, graph_vars, codegen_vars>>

\* _transform_dataflow: the next child is an <ObjectFifoForward>
DoTransformForward ==
    /\ Len(xt.log) < MaxExpanderElements
    /\ \E name \in {"of_b", "of_c"}, source \in {"of_a", "of_b", "of_x"} :
           xt' = TransformForward(xt, ObjectFifoForwardElem(name, source))
    /\ UNCHANGED <<builder_vars, driver_vars, graph_vars, codegen_vars>>

ExpanderNext ==
    \/ DoTransformTypeAbstraction
    \/ DoTransformObjectFifo
    \/ DoTransformForward

ExpanderSpec == Init /\ [][ExpanderNext]_vars

\* the names the DataFlow elements before the k-th element of the log made
\* known
KnownBefore(k) ==
    {Attr(xt.log[j].simple, "name", "") :
        j \in {i \in 1..(k - 1) : xt.log[i].simple.tag \in {"ObjectFifo", "ObjectFifoForward"}}}

\* the k-th element transformed is a forward from a FIFO not known then
UnknownForward(k) ==
    /\ xt.log[k].simple.tag = "ObjectFifoForward"
    /\ Attr(xt.log[k].simple, "source", "") \notin KnownBefore(k)

\* the ref of the base of the method chain written for a forward
BaseRef(out) ==
    Attr(Find(Find(Find(Find(out, "source"), "method_chain"), "base"), "var"), "ref", "")

\* C23: for every forward from a FIFO unknown when it is expanded, a WARN
\* diagnostic has been written, the reference is passed through as the name
\* given, and the elements after it are expanded all the same.
C23_UnknownForwardWarns ==
    \A k \in DOMAIN xt.log :
        UnknownForward(k) =>
            /\ \E d \in DOMAIN xt.sink : xt.sink[d].severity = "WARN"
            /\ BaseRef(xt.log[k].out) = Attr(xt.log[k].simple, "source", "")
            /\ Len(xt.symbols_section) + Len(xt.dataflow_section) = Len(xt.log)

\* the number of "/" in a shape text
Operators(shape_text) == Cardinality({i \in DOMAIN shape_text : shape_text[i] = "/"})

\* the shape text of an authoring <TypeAbstraction>
ShapeOf(simple) == Find(Find(simple, "ndarray"), "shape").text

\* the <expr> written for it
ExprOf(out) == Find(Find(Find(Find(out, "ndarray"), "shape"), "tuple"), "expr")

\* the const texts under an element
RECURSIVE ConstTexts(_)
ConstTexts(elem) ==
    (IF elem.tag = "const" THEN {Glue(elem.text)} ELSE {})
    \cup UNION {ConstTexts(elem.children[i]) : i \in DOMAIN elem.children}

\* the shape is kept: the <expr> holds the text as it was given, or every
\* divisor of the text is a const of the expression written
ShapeKept(shape_text, expr) ==
    \/ expr.text = shape_text
    \/ \A p \in 2..Len(SplitOn(shape_text, "/")) :
           SplitOn(shape_text, "/")[p] \in ConstTexts(expr)

\* C30: a TypeAbstraction shape with more than one binary operator is
\* either rejected, so nothing is written for it, or written with its
\* expression kept; no part of it is dropped.
C30_ShapeNotMisparsed ==
    \A k \in DOMAIN xt.log :
        (xt.log[k].simple.tag = "TypeAbstraction" /\ Operators(ShapeOf(xt.log[k].simple)) > 1)
            => ShapeKept(ShapeOf(xt.log[k].simple), ExprOf(xt.log[k].out))

-----------------------------------------------------------------------------
(* The registry's tables against one another.                               *)

\* the entry of the name index under name_key refers to a registered id
\* whose entity has the namespace and the name of the key
LiveEntry(b, name_key) ==
    /\ b.name_index[name_key] \in DOMAIN b.id_map
    /\ b.id_map[b.name_index[name_key]].type = name_key[1]
    /\ b.id_map[b.name_index[name_key]].component.name = name_key[2]

\* C24: after any sequence of add, update, remove and update_fifo calls
\* every (namespace, name) -> id entry of the name index refers to an id of
\* the id table whose entity has that namespace and that name, so that
\* lookup_by_name raises nothing and returns no stale entity.
C24_NameIndexIsLive ==
    \A name_key \in DOMAIN name_index :
        /\ LiveEntry(Now, name_key)
        /\ LookupByName(Now, name_key[1], name_key[2]) # KeyError

\* the dictionaries of the Program that hold registered entities
ProgramFields ==
    {"symbols", "tiles", "fifos", "external_kernels", "core_functions", "workers"}

\* the ids the entity is registered under
IdsOf(b, component) ==
    {i \in DOMAIN b.id_map : b.id_map[i].component.oid = component.oid}

\* C25: after any sequence of builder operations every registered entity is
\* stored in the Program dictionary of its namespace under its own name, and
\* every entity stored in a Program dictionary is registered under exactly
\* one id.
C25_ProgramAndRegistryAgree ==
    /\ \A i \in DOMAIN id_map :
           /\ Has(program[FieldOf(id_map[i].type)], id_map[i].component.name)
           /\ At(program[FieldOf(id_map[i].type)], id_map[i].component.name).oid
                  = id_map[i].component.oid
    /\ \A field \in ProgramFields :
           \A k \in DOMAIN program[field] :
               Cardinality(IdsOf(Now, program[field][k][2])) = 1

\* both ids are registered and name FIFOs
BothFifos(b, old_id, new_id) ==
    /\ old_id \in DOMAIN b.id_map
    /\ new_id \in DOMAIN b.id_map
    /\ b.id_map[old_id].type = "fifo"
    /\ b.id_map[new_id].type = "fifo"

\* what update_fifo(old_id, new_id) promises for two registered FIFOs
FifoSwapped(b, old_id, new_id, out) ==
    LET new_fifo == b.id_map[new_id].component
        by_id == LookupById(out.builder, new_id)
        by_name == LookupByName(out.builder, "fifo", new_fifo.name)
    IN  /\ out.result.success
        /\ out.result.id = new_id
        /\ by_id.success
        /\ by_id.component.oid = new_fifo.oid
        /\ by_name # KeyError
        /\ by_name.success
        /\ by_name.id = new_id
        /\ ~LookupById(out.builder, old_id).success
        /\ Has(out.builder.program.fifos, new_fifo.name)
        /\ At(out.builder.program.fifos, new_fifo.name).oid = new_fifo.oid

\* C27: update_fifo(old_id, new_id) on two registered FIFOs (taken here
\* with two different ids) returns ok(new_id); afterwards lookup_by_id(new_id)
\* returns the new FIFO, lookup_by_name('fifo', its name) returns new_id,
\* old_id is not found and program.fifos holds the new FIFO.  With an id
\* that is unknown or no FIFO the call fails and changes nothing.
C27_UpdateFifoSwaps ==
    \A old_id \in KnownIds : \A new_id \in KnownIds \ {old_id} :
        IF BothFifos(Now, old_id, new_id)
        THEN FifoSwapped(Now, old_id, new_id, UpdateFifo(Now, old_id, new_id))
        ELSE /\ ~UpdateFifo(Now, old_id, new_id).result.success
             /\ UpdateFifo(Now, old_id, new_id).builder = Now

-----------------------------------------------------------------------------
\* the add_* calls that update the entity registered under comp_id in
\* place: the call of its own namespace with provided_id = comp_id
UpdatesInPlace(b, comp_id) ==
    LET comp_type == b.id_map[comp_id].type
    IN  CASE comp_type = "tile" ->
                {AddTile(b, name, x, comp_id) : name \in DepNames, x \in {0, 1}}
          [] comp_type = "fifo" ->
                {AddFifo(b, name, Str("a"), depth, NoneV, <<>>, comp_id)
                    : name \in DepNames, depth \in {1, 2}}
          [] comp_type = "tensor_type" ->
                {AddTensorType(b, name, shape, comp_id)
                    : name \in DepNames, shape \in {<<1024>>, <<512>>}}
          [] comp_type = "core_function" ->
                {AddCoreFunction(b, name, parameters, NoneV, comp_id)
                    : name \in DepNames, parameters \in {<<"kernel", "fifo">>, <<"kernel">>}}
          [] OTHER -> {}

\* C26: when an entity that another component references is updated in
\* place through provided_id, the referencing component still resolves to
\* it: remove of the updated entity is refused with has_dependencies and
\* names the dependents it named before the update.
C26_UpdateKeepsDependents ==
    \A comp_id \in DOMAIN id_map :
        LET deps == CheckDependencies(Now, id_map[comp_id].type, id_map[comp_id].component)
        IN  deps # <<>> =>
                \A out \in UpdatesInPlace(Now, comp_id) :
                    out.result.success =>
                        /\ ~RemoveComponent(out.builder, comp_id).result.success
                        /\ RemoveComponent(out.builder, comp_id).result.error_code
                               = "dependency_exists"
                        /\ RemoveComponent(out.builder, comp_id).result.dependencies = deps

-----------------------------------------------------------------------------
(* The scope stack: the function's parameters are declared in the           *)
(* function's scope before its body is processed.                           *)

\* most <param> elements of the function
MaxParams == 2

\* the names a parameter can have: the module's, the function's, the
\* variable the body assigns, one of its own
ParamNames == {"m", "f", "x", "n"}

\* _process_function, one <param> of <parameters>: the Parameter node, its
\* has_param edge and its declaration in the function's scope
FuncParam(g, p_name) ==
    DeclareSymbol(Link(AddNode(g, p_name, "Parameter", <<>>),
                       <<"Function", 2>>, NextId(g, "Parameter"), "has_param"),
                  p_name, NextId(g, "Parameter"))

ParameterNodes(g) == {n \in Keys(g.nodes) : At(g.nodes, n).kind = "Parameter"}

DoFuncParam ==
    /\ fn_body = <<>>
    /\ Cardinality(ParameterNodes(gb)) < MaxParams
    /\ \E p_name \in ParamNames : gb' = FuncParam(gb, p_name)
    /\ UNCHANGED <<builder_vars, driver_vars, fn_body, codegen_vars, expander_vars>>

ScopeNext ==
    \/ DoFuncParam
    \/ DoFuncAssign
    \/ DoFuncCall
    \/ DoFuncFor

ScopeSpec == Init /\ [][ScopeNext]_vars

\* the top frame of the scope stack
TopFrame(g) == g.scope_stack[Len(g.scope_stack)]

\* C28: in every state of the scope stack, declaring a name the top frame
\* already binds is a no-op: every frame is left as it was, the top frame's
\* binding of the name included.
C28_RedeclareIsNoOp ==
    \A name \in Keys(TopFrame(gb)) :
        DeclareSymbol(gb, name, NextId(gb, "Parameter")).scope_stack = gb.scope_stack

====
